---------------------------- MODULE Spec2Model ----------------------------
(***************************************************************************)
(* A model of the shadow-mapping demo (src/src/scenes/07-ShadowMapping.tsx *)
(* and the shadow-map fragment shaders).                                   *)
(*                                                                         *)
(* Numbers.  The program computes with floats; the model computes with     *)
(* integers in fixed units:                                                *)
(*   lengths and positions      1/100 of a world unit  (0.01 -> 1)         *)
(*   colours, biases            1/10                   (1.5  -> 15)        *)
(*   angles                     degrees                (PI/2 -> 90)        *)
(*   components of unit vectors 1/1000                 (1.0  -> 1000)      *)
(* Light directions are kept as the raw vectors the program holds.         *)
(*                                                                         *)
(* A frame (draw) is one action.  It issues the sequence of API calls the  *)
(* code issues (calls), the GL state machine executes them (gl), and every *)
(* mesh draw call is recorded with the GL state it ran under (draws).      *)
(***************************************************************************)
EXTENDS Integers, Sequences, FiniteSets, TLC

VARIABLES
    phase,      \* "constructed" | "started" | "ended": the scene's lifecycle
    lastOp,     \* the handler that ran last: "new", "start", "draw", "ui", "end";
                \* "redraw" is a draw right after a draw with the camera left in place
    lights,     \* this.lights: 1..4 -> light record
    camPos,     \* this.camera.position
    gl,         \* the WebGL context state the scene touches
    gpu,        \* the GPU objects alive (created and not yet deleted)
    calls,      \* the API calls issued by the frame that just ran (<<>> outside)
    draws,      \* the mesh draw calls of that frame, each with the GL state it ran under
    frag,       \* the fragment being shaded (shader specifications only)
    pixel,      \* one pixel of the canvas: the fragments that cover it and what the
                \* colour and depth buffers hold there (pixel specification only)
    material    \* a Material object (material specification only)

vars == <<phase, lastOp, lights, camPos, gl, gpu, calls, draws, frag, pixel, material>>

sceneVars == <<phase, lastOp, lights, camPos, gl, gpu, calls, draws>>

---------------------------------------------------------------------------
(* gl-matrix vec3 on integer vectors *)

Vec(x, y, z) == <<x, y, z>>

VAdd(a, b) == <<a[1] + b[1], a[2] + b[2], a[3] + b[3]>>

VSub(a, b) == <<a[1] - b[1], a[2] - b[2], a[3] - b[3]>>

Dot(a, b) == a[1] * b[1] + a[2] * b[2] + a[3] * b[3]

Cross(a, b) ==
    <<a[2] * b[3] - a[3] * b[2],
      a[3] * b[1] - a[1] * b[3],
      a[1] * b[2] - a[2] * b[1]>>

Abs(x) == IF x < 0 THEN -x ELSE x

\* F(e) with e evaluated once, however often F uses its argument (a LET is
\* evaluated again at every use when TLC collects coverage)
Once(e, F(_)) == CHOOSE r \in {F(v) : v \in {e}} : TRUE

RECURSIVE SqrtBetween(_, _, _)
\* the largest r in lo..hi with r * r <= n, by bisection (lo * lo <= n < (hi + 1)^2)
SqrtBetween(n, lo, hi) ==
    IF lo = hi THEN lo
    ELSE Once((lo + hi + 1) \div 2,
              LAMBDA mid : IF mid * mid <= n
                           THEN Once(hi, LAMBDA h : SqrtBetween(n, mid, h))
                           ELSE Once(<<lo, mid - 1>>, LAMBDA b : SqrtBetween(n, b[1], b[2])))

\* the integer part of the square root (Math.sqrt, truncated), for n < 2^30
ISqrt(n) == SqrtBetween(n, 0, 32767)

\* a quotient rounded toward zero, as a float-to-fixed conversion truncates
Quot(a, b) == IF (a < 0) = (b < 0) THEN Abs(a) \div Abs(b) ELSE -(Abs(a) \div Abs(b))

RECURSIVE Gcd(_, _)
\* the common scale of a vector's components, taken out before the length is
\* computed so that the squares stay within the integers
Gcd(a, b) == IF b = 0 THEN a ELSE Once(<<b, a % b>>, LAMBDA p : Gcd(p[1], p[2]))

\* vec3.normalize: v / |v| in 1/1000; the zero vector stays zero
Normalize(v) ==
    Once(Gcd(Gcd(Abs(v[1]), Abs(v[2])), Abs(v[3])), LAMBDA g :
    Once(IF g = 0 THEN v ELSE <<Quot(v[1], g), Quot(v[2], g), Quot(v[3], g)>>, LAMBDA u :
    Once(ISqrt(Dot(u, u) * 1000000), LAMBDA len :         \* |u| in 1/1000
        IF len = 0 THEN <<0, 0, 0>>
        ELSE <<Quot(u[1] * 1000000, len), Quot(u[2] * 1000000, len),
               Quot(u[3] * 1000000, len)>>)))

\* vec3.scaleAndAdd(out, a, b, s) with b a unit vector in 1/1000
ScaleAndAdd(a, b, s) ==
    <<a[1] + Quot(b[1] * s, 1000), a[2] + Quot(b[2] * s, 1000), a[3] + Quot(b[3] * s, 1000)>>

\* a perpendicular taken with (0, 0, 1) unless the vector lies along Y or along Z
perpendicular_ZUnlessAlongYZ(direction) ==
    Cross(direction,
          IF direction[1] = 0 /\ (direction[2] = 0 \/ direction[3] = 0)
          THEN <<1, 0, 0>> ELSE <<0, 0, 1>>)

\* a perpendicular taken with (1, 0, 0) whatever the vector
perpendicular_AlwaysX(direction) == Cross(direction, <<1, 0, 0>>)

\* Given a vector, an arbitrary perpendicular vector
perpendicular(direction) ==
    Cross(direction,
          IF direction[2] = 0 /\ direction[3] = 0 THEN <<0, 0, 1>> ELSE <<1, 0, 0>>)

---------------------------------------------------------------------------
(* gl-matrix mat4 builders.  A matrix is kept as the arguments it was built *)
(* from: equal arguments give bit-identical matrices.                       *)

\* mat4.perspective(out, fovy, aspect, near, far)
Perspective(fovy, aspect, near, far) ==
    [kind |-> "perspective", fovy |-> fovy, aspect |-> aspect, near |-> near, far |-> far]

\* mat4.ortho(out, left, right, bottom, top, near, far)
Ortho(left, right, bottom, top, near, far) ==
    [kind |-> "ortho", left |-> left, right |-> right, bottom |-> bottom, top |-> top,
     near |-> near, far |-> far]

\* mat4.lookAt(out, eye, center, up)
LookAt(eye, center, up) == [eye |-> eye, center |-> center, up |-> up]

\* mat4.mul(out, P, V)
Mul(P, V) == [proj |-> P, view |-> V]

---------------------------------------------------------------------------
(* The scene's constants and its state after construction *)

\* The maximum number of shadow cascades we support
MAX_CASCADES == 4

\* face directions with -X in the place of +X
PointShadowDirections_NoPlusX ==
    << <<-1, 0, 0>>, <<0, -1, 0>>, <<0, 0, -1>>, <<-1, 0, 0>>, <<0, 1, 0>>, <<0, 0, 1>> >>

\* The cube face directions and up vectors
PointShadowDirections ==
    << <<-1, 0, 0>>, <<0, -1, 0>>, <<0, 0, -1>>, <<1, 0, 0>>, <<0, 1, 0>>, <<0, 0, 1>> >>

\* up vectors that are (0, -1, 0) for every face
PointShadowUps_AllMinusY ==
    << <<0, -1, 0>>, <<0, -1, 0>>, <<0, -1, 0>>, <<0, -1, 0>>, <<0, -1, 0>>, <<0, -1, 0>> >>

PointShadowUps ==
    << <<0, -1, 0>>, <<0, 0, -1>>, <<0, -1, 0>>, <<0, -1, 0>>, <<0, 0, -1>>, <<0, -1, 0>> >>

\* lights: Light[] as the class initializer sets it
InitialLights ==
    << [type |-> "ambient", enabled |-> TRUE, skyColor |-> <<2, 3, 4>>,
        groundColor |-> <<1, 1, 1>>, skyDirection |-> <<0, 1, 0>>, hasShadow |-> FALSE],
       [type |-> "directional", enabled |-> TRUE, color |-> <<5, 5, 5>>,
        direction |-> <<-1, -1, -1>>, hasShadow |-> TRUE, shadowMaps |-> <<>>,
        shadowVPs |-> <<>>, cascades |-> <<200, 1000, 10000>>, shadowMapResolution |-> 1024,
        shadowBias |-> 10, shadowSlopeBias |-> 15, shadowDistance |-> 80000],
       [type |-> "point", enabled |-> TRUE, color |-> <<100, 80, 20>>,
        position |-> <<0, 250, 0>>, attenuation_quadratic |-> 0, attenuation_linear |-> 10,
        attenuation_constant |-> 0, hasShadow |-> TRUE, shadowMaps |-> <<>>,
        shadowVPs |-> <<>>, shadowMapResolution |-> 256, shadowBias |-> 10,
        shadowSlopeBias |-> 15, shadowNear |-> 1, shadowFar |-> 10000],
       [type |-> "spot", enabled |-> TRUE, color |-> <<50, 0, 0>>,
        position |-> <<-200, 400, 600>>, direction |-> <<0, -1, -1>>,
        attenuation_quadratic |-> 0, attenuation_linear |-> 10, attenuation_constant |-> 0,
        inner_cone |-> 45, outer_cone |-> 54, hasShadow |-> TRUE, shadowMaps |-> <<>>,
        shadowVPs |-> <<>>, shadowMapResolution |-> 512, shadowBias |-> 10,
        shadowSlopeBias |-> 15, shadowNear |-> 1, shadowFar |-> 10000] >>

LightIds == 1..Len(InitialLights)

\* objects: the keys of this.objects in insertion order (the order of for..in)
ObjectNames == <<"ground", "house", "wood suzanne">>

\* a GPU object: a program, mesh, texture, sampler or framebuffer
Obj(kind, name, l, i) == [kind |-> kind, name |-> name, l |-> l, i |-> i]

NoObj == Obj("none", "null", 0, 0)

\* the shadow map TextureUtils.RenderTexture returns for light l, index i (0-based)
ShadowMapTex(l, i) == Obj("texture", "shadowMap", l, i)

\* gl.drawingBufferWidth, gl.drawingBufferHeight: the size of the canvas
DrawingBufferWidth == 640

DrawingBufferHeight == 480

MaxTextureUnit == 10

\* the state of a fresh WebGL2 context
InitialGL ==
    [blend |-> FALSE, blendEquation |-> "FUNC_ADD", blendSrc |-> "ONE", blendDst |-> "ZERO",
     polygonOffsetFill |-> FALSE, polygonOffset |-> <<0, 0>>,
     cullFace |-> FALSE, depthTest |-> FALSE, depthFunc |-> "LESS",
     clearColor |-> <<0, 0, 0, 0>>,
     framebuffer |-> NoObj, depthAttachment |-> NoObj,
     viewport |-> <<0, 0, DrawingBufferWidth, DrawingBufferHeight>>,
     program |-> NoObj, activeTexture |-> 0,
     textureUnits |-> [u \in 0..MaxTextureUnit |-> NoObj],
     samplerUnits |-> [u \in 0..MaxTextureUnit |-> NoObj]]

NoFragment == [shader |-> "none"]

\* no pixel is followed
NoPixel == [covered |-> "none"]

\* no Material has been constructed
NoMaterial == [shader |-> "none"]

SceneInit ==
    /\ phase = "constructed"
    /\ lastOp = "new"
    /\ lights = InitialLights
    /\ camPos = <<0, 0, 0>>
    /\ gl = InitialGL
    /\ gpu = {}
    /\ calls = <<>>
    /\ draws = <<>>

---------------------------------------------------------------------------
(* draw(), first half: the shadow transforms and the shadow passes *)

\* a world-unit vector (a direction added to a position) in length units
ToLength(v) == <<v[1] * 100, v[2] * 100, v[3] * 100>>

\* an API call: op, the light and the index of the loop iterations that issue it
\* (0 and -1 outside the loops), and its arguments.  A uniform setter's arguments
\* are <<name, array index or -1, value>>: "light.shadowVPs[2]" is
\* <<"light.shadowVPs", 2, ...>>; an object's modelMatrix is named by the object.
Call(op, l, i, args) == [op |-> op, l |-> l, i |-> i, args |-> args]

\* arr[i] = v for i = 0..Len(new)-1 on a JavaScript array: later entries stay
AssignPrefix(old, new) ==
    [i \in 1..(IF Len(old) > Len(new) THEN Len(old) ELSE Len(new)) |->
        IF i <= Len(new) THEN new[i] ELSE old[i]]

\* a spot projection as wide as the outer cone angle, not twice as wide
SpotShadowVPs_ConeWide(light) ==
    << Mul(Perspective(light.outer_cone, 1, light.shadowNear, light.shadowFar),
           LookAt(light.position, VAdd(light.position, ToLength(light.direction)),
                  perpendicular(light.direction))) >>

\* the spot light's single shadow view-projection
SpotShadowVPs(light) ==
    << Mul(Perspective(2 * light.outer_cone, 1, light.shadowNear, light.shadowFar),
           LookAt(light.position, VAdd(light.position, ToLength(light.direction)),
                  perpendicular(light.direction))) >>

\* cascades whose view keeps the eye of the frame before once there is one
DirectionalShadowVPs_KeepsEye(light, cam) ==
    LET dir == Normalize(light.direction)
        V == LookAt(IF light.shadowVPs = <<>>
                    THEN ScaleAndAdd(cam, dir, Quot(-light.shadowDistance, 2))
                    ELSE ScaleAndAdd(light.shadowVPs[1].view.eye, dir,
                                     Quot(-light.shadowDistance, 2)),
                    cam, perpendicular(light.direction))
    IN  [i \in 1..Len(light.cascades) |->
            LET size == light.cascades[i]
            IN  Mul(Ortho(-size, size, -size, size, 0, light.shadowDistance), V)]

\* cascades whose view stands the whole shadowDistance away from the camera
DirectionalShadowVPs_FullDistance(light, cam) ==
    LET dir == Normalize(light.direction)
        V == LookAt(ScaleAndAdd(cam, dir, -light.shadowDistance), cam,
                    perpendicular(light.direction))
    IN  [i \in 1..Len(light.cascades) |->
            LET size == light.cascades[i]
            IN  Mul(Ortho(-size, size, -size, size, 0, light.shadowDistance), V)]

\* cascades that all take the extent of the first
DirectionalShadowVPs_FirstExtent(light, cam) ==
    LET dir == Normalize(light.direction)
        V == LookAt(ScaleAndAdd(cam, dir, Quot(-light.shadowDistance, 2)), cam,
                    perpendicular(light.direction))
    IN  [i \in 1..Len(light.cascades) |->
            LET size == light.cascades[1]
            IN  Mul(Ortho(-size, size, -size, size, 0, light.shadowDistance), V)]

\* the directional light's cascades: one view, one orthographic projection each
DirectionalShadowVPs(light, cam) ==
    LET dir == Normalize(light.direction)
        V == LookAt(ScaleAndAdd(cam, dir, Quot(-light.shadowDistance, 2)), cam,
                    perpendicular(light.direction))
    IN  [i \in 1..Len(light.cascades) |->
            LET size == light.cascades[i]
            IN  Mul(Ortho(-size, size, -size, size, 0, light.shadowDistance), V)]

\* six faces with a field of view of 60 degrees
PointShadowVPs_NarrowFov(light) ==
    LET P == Perspective(60, 1, light.shadowNear, light.shadowFar)
    IN  [i \in 1..Len(PointShadowUps) |->
            Mul(P, LookAt(light.position,
                          VAdd(light.position, ToLength(PointShadowDirections[i])),
                          PointShadowUps[i]))]

\* the point light's six faces: one projection, one view each
PointShadowVPs(light) ==
    LET P == Perspective(90, 1, light.shadowNear, light.shadowFar)
    IN  [i \in 1..Len(PointShadowUps) |->
            Mul(P, LookAt(light.position,
                          VAdd(light.position, ToLength(PointShadowDirections[i])),
                          PointShadowUps[i]))]

\* the view-projection matrices draw() builds for one light
BuildShadowVPs(light, cam) ==
    CASE light.type = "spot" -> SpotShadowVPs(light)
      [] light.type = "directional" -> DirectionalShadowVPs(light, cam)
      [] light.type = "point" -> PointShadowVPs(light)
      [] OTHER -> <<>>

\* a guard that looks at hasShadow only
CastsShadow_IgnoresEnabled(light) == light.hasShadow

\* the guard of the shadow loop: not (!light.enabled || !light.hasShadow)
CastsShadow(light) == light.enabled /\ light.hasShadow

\* a shadow loop that builds a light's shadowVPs only while it has none
LightsAfterShadowLoop_BuildsOnce(ls, cam) ==
    [l \in DOMAIN ls |->
        IF CastsShadow(ls[l]) /\ ls[l].shadowVPs = <<>>
        THEN [ls[l] EXCEPT !.shadowVPs = AssignPrefix(@, BuildShadowVPs(ls[l], cam))]
        ELSE ls[l]]

\* the lights after the shadow loop: the casting lights' shadowVPs rebuilt
LightsAfterShadowLoop(ls, cam) ==
    [l \in DOMAIN ls |->
        IF CastsShadow(ls[l])
        THEN [ls[l] EXCEPT !.shadowVPs = AssignPrefix(@, BuildShadowVPs(ls[l], cam))]
        ELSE ls[l]]

RECURSIVE Flatten(_)
\* the concatenation of a sequence of sequences
Flatten(ss) == IF ss = <<>> THEN <<>> ELSE Head(ss) \o Flatten(Tail(ss))

\* a sub-pass that leaves the ground out: it receives shadows and casts none
ShadowObjectCalls_CastersOnly(l, i) ==
    Flatten([k \in 1..(Len(ObjectNames) - 1) |->
        << Call("setUniformMatrix4fv", l, i, <<"M", -1, ObjectNames[k + 1]>>),
           Call("draw", l, i, <<ObjectNames[k + 1]>>) >>])

\* for(let name in this.objects) of a shadow sub-pass
ShadowObjectCalls(l, i) ==
    Flatten([k \in 1..Len(ObjectNames) |->
        << Call("setUniformMatrix4fv", l, i, <<"M", -1, ObjectNames[k]>>),
           Call("draw", l, i, <<ObjectNames[k]>>) >>])

\* if(this.gl.checkFramebufferStatus(...) != this.gl.FRAMEBUFFER_COMPLETE)
\*     console.error("FrameBuffer is Incomplete");
\* incomplete is the set of sub-passes <<l, i>> whose check does not report
\* FRAMEBUFFER_COMPLETE
StatusCheckCalls(l, i, incomplete) ==
    << Call("checkFramebufferStatus", l, i, <<>>) >>
    \o (IF <<l, i>> \in incomplete
        THEN << Call("console.error", l, i, <<"FrameBuffer is Incomplete">>) >>
        ELSE <<>>)

\* a sub-pass that gives up a target reported incomplete
ShadowSubPassCalls_SkipsIncomplete(l, light, i, incomplete) ==
    << Call("framebufferTexture2D", l, i, <<light.shadowMaps[i + 1]>>) >>
    \o StatusCheckCalls(l, i, incomplete)
    \o (IF <<l, i>> \in incomplete
        THEN <<>>
        ELSE << Call("viewport", l, i,
                     <<0, 0, light.shadowMapResolution, light.shadowMapResolution>>),
                Call("clear", l, i, <<{"DEPTH_BUFFER_BIT"}>>),
                Call("setUniformMatrix4fv", l, i, <<"VP", -1, light.shadowVPs[i + 1]>>),
                Call("polygonOffset", l, i, <<light.shadowSlopeBias, light.shadowBias>>) >>
             \o ShadowObjectCalls(l, i))

\* a sub-pass that passes the bias as the factor and the slope bias as the units
ShadowSubPassCalls_BiasSwapped(l, light, i, incomplete) ==
    << Call("framebufferTexture2D", l, i, <<light.shadowMaps[i + 1]>>) >>
    \o StatusCheckCalls(l, i, incomplete)
    \o
    << Call("viewport", l, i, <<0, 0, light.shadowMapResolution, light.shadowMapResolution>>),
       Call("clear", l, i, <<{"DEPTH_BUFFER_BIT"}>>),
       Call("setUniformMatrix4fv", l, i, <<"VP", -1, light.shadowVPs[i + 1]>>),
       Call("polygonOffset", l, i, <<light.shadowBias, light.shadowSlopeBias>>) >>
    \o ShadowObjectCalls(l, i)

\* a sub-pass that clears its map after the objects are drawn
ShadowSubPassCalls_ClearsLast(l, light, i, incomplete) ==
    << Call("framebufferTexture2D", l, i, <<light.shadowMaps[i + 1]>>) >>
    \o StatusCheckCalls(l, i, incomplete)
    \o
    << Call("viewport", l, i, <<0, 0, light.shadowMapResolution, light.shadowMapResolution>>),
       Call("setUniformMatrix4fv", l, i, <<"VP", -1, light.shadowVPs[i + 1]>>),
       Call("polygonOffset", l, i, <<light.shadowSlopeBias, light.shadowBias>>) >>
    \o ShadowObjectCalls(l, i)
    \o << Call("clear", l, i, <<{"DEPTH_BUFFER_BIT"}>>) >>

\* one shadow map of one light: attach, check, viewport, clear, VP, bias, objects
ShadowSubPassCalls(l, light, i, incomplete) ==
    << Call("framebufferTexture2D", l, i, <<light.shadowMaps[i + 1]>>) >>
    \o StatusCheckCalls(l, i, incomplete)
    \o
    << Call("viewport", l, i, <<0, 0, light.shadowMapResolution, light.shadowMapResolution>>),
       Call("clear", l, i, <<{"DEPTH_BUFFER_BIT"}>>),
       Call("setUniformMatrix4fv", l, i, <<"VP", -1, light.shadowVPs[i + 1]>>),
       Call("polygonOffset", l, i, <<light.shadowSlopeBias, light.shadowBias>>) >>
    \o ShadowObjectCalls(l, i)

\* for(let i = 0; i < light.shadowMaps.length; i++)
ShadowPassCalls(l, light, incomplete) ==
    Flatten([k \in 1..Len(light.shadowMaps) |->
                ShadowSubPassCalls(l, light, k - 1, incomplete)])

\* a first half that leaves the polygon offset on when it is done
ShadowPhaseCalls_OffsetLeftOn(ls, incomplete) ==
    << Call("bindFramebuffer", 0, -1, <<Obj("framebuffer", "frameBuffer", 0, 0)>>),
       Call("useProgram", 0, -1, <<Obj("program", "shadow", 0, 0)>>),
       Call("enable", 0, -1, <<"POLYGON_OFFSET_FILL">>) >>
    \o Flatten([l \in DOMAIN ls |->
                  IF CastsShadow(ls[l]) THEN ShadowPassCalls(l, ls[l], incomplete) ELSE <<>>])

\* the calls of the first half of draw(); ls is the lights with the rebuilt shadowVPs
ShadowPhaseCalls(ls, incomplete) ==
    << Call("bindFramebuffer", 0, -1, <<Obj("framebuffer", "frameBuffer", 0, 0)>>),
       Call("useProgram", 0, -1, <<Obj("program", "shadow", 0, 0)>>),
       Call("enable", 0, -1, <<"POLYGON_OFFSET_FILL">>) >>
    \o Flatten([l \in DOMAIN ls |->
                  IF CastsShadow(ls[l]) THEN ShadowPassCalls(l, ls[l], incomplete) ELSE <<>>])
    \o << Call("disable", 0, -1, <<"POLYGON_OFFSET_FILL">>) >>

---------------------------------------------------------------------------
(* draw(), second half: one colour pass for each enabled light *)

\* a loop that trusts the blending it finds for its first light
BlendCalls_FirstLightUntouched(l, first_light) ==
    IF first_light
    THEN <<>>
    ELSE << Call("enable", l, -1, <<"BLEND">>),
            Call("blendEquation", l, -1, <<"FUNC_ADD">>),
            Call("blendFunc", l, -1, <<"ONE", "ONE">>) >>

\* the blending of a colour pass: off for the first light, additive after it
BlendCalls(l, first_light) ==
    IF first_light
    THEN << Call("disable", l, -1, <<"BLEND">>) >>
    ELSE << Call("enable", l, -1, <<"BLEND">>),
            Call("blendEquation", l, -1, <<"FUNC_ADD">>),
            Call("blendFunc", l, -1, <<"ONE", "ONE">>) >>

\* the light's own properties (colour, direction, position, attenuation, cones)
LightPropertyCalls(l, light) ==
    IF light.type = "ambient"
    THEN << Call("setUniform3f", l, -1, <<"light.skyColor", -1, light.skyColor>>),
            Call("setUniform3f", l, -1, <<"light.groundColor", -1, light.groundColor>>),
            Call("setUniform3f", l, -1,
                 <<"light.skyDirection", -1, Normalize(light.skyDirection)>>) >>
    ELSE << Call("setUniform3f", l, -1, <<"light.color", -1, light.color>>) >>
         \o (IF light.type \in {"directional", "spot"}
             THEN << Call("setUniform3f", l, -1,
                          <<"light.direction", -1, Normalize(light.direction)>>) >>
             ELSE <<>>)
         \o (IF light.type \in {"point", "spot"}
             THEN << Call("setUniform3f", l, -1, <<"light.position", -1, light.position>>),
                     Call("setUniform1f", l, -1,
                          <<"light.attenuation_quadratic", -1, light.attenuation_quadratic>>),
                     Call("setUniform1f", l, -1,
                          <<"light.attenuation_linear", -1, light.attenuation_linear>>),
                     Call("setUniform1f", l, -1,
                          <<"light.attenuation_constant", -1, light.attenuation_constant>>) >>
             ELSE <<>>)
         \o (IF light.type = "spot"
             THEN << Call("setUniform1f", l, -1, <<"light.inner_cone", -1, light.inner_cone>>),
                     Call("setUniform1f", l, -1, <<"light.outer_cone", -1, light.outer_cone>>) >>
             ELSE <<>>)

\* the shadow maps and VPs of a light that has shadows, from texture unit 5 on
ShadowMapUniformCalls(l, light) ==
    Flatten([k \in 1..Len(light.shadowMaps) |->
        LET i == k - 1
        IN  << Call("setUniformMatrix4fv", l, i, <<"light.shadowVPs", i, light.shadowVPs[k]>>),
               Call("activeTexture", l, i, <<5 + i>>),
               Call("bindTexture", l, i, <<light.shadowMaps[k]>>),
               Call("bindSampler", l, i, <<5 + i, Obj("sampler", "shadow", 0, 0)>>),
               Call("setUniform1i", l, i, <<"light.shadowMaps", i, 5 + i>>) >>])

\* cascade uniforms that leave the unused slots as they are
CascadeUniformCalls_NoSpareSlots(l, light) ==
    << Call("setUniform1i", l, -1, <<"light.active_cascades", -1, Len(light.cascades)>>) >>
    \o [k \in 1..Len(light.cascades) |->
            Call("setUniform1f", l, k - 1, <<"light.cascades", k - 1, light.cascades[k]>>)]

\* the cascade sizes, their number, and the unused slots bound to the last cascade
CascadeUniformCalls(l, light) ==
    LET last == Len(light.shadowMaps) - 1
    IN  << Call("setUniform1i", l, -1, <<"light.active_cascades", -1, Len(light.cascades)>>) >>
        \o [k \in 1..Len(light.cascades) |->
                Call("setUniform1f", l, k - 1, <<"light.cascades", k - 1, light.cascades[k]>>)]
        \o Flatten([j \in 1..(IF MAX_CASCADES > Len(light.shadowMaps)
                              THEN MAX_CASCADES - Len(light.shadowMaps) ELSE 0) |->
                LET i == Len(light.shadowMaps) + j - 1
                IN  << Call("setUniformMatrix4fv", l, i,
                            <<"light.shadowVPs", i, light.shadowVPs[last + 1]>>),
                       Call("setUniform1i", l, i, <<"light.shadowMaps", i, 5 + last>>),
                       Call("setUniform1f", l, i,
                            <<"light.cascades", i, light.cascades[last + 1]>>) >>])

\* a pass that tells the shader of shadows whether the light has them or not
ShadowUniformCalls_AlwaysOn(l, light) ==
    IF light.type = "ambient" THEN <<>>
    ELSE << Call("setUniform1f", l, -1, <<"light.hasShadow", -1, 1>>) >>
         \o (IF light.hasShadow
             THEN ShadowMapUniformCalls(l, light)
                  \o (IF light.type = "directional" THEN CascadeUniformCalls(l, light)
                      ELSE <<>>)
             ELSE <<>>)

\* Tell the shader if this light has shadows, and send them if it has
ShadowUniformCalls(l, light) ==
    IF light.type = "ambient" THEN <<>>
    ELSE << Call("setUniform1f", l, -1,
                 <<"light.hasShadow", -1, IF light.hasShadow THEN 1 ELSE 0>>) >>
         \o (IF light.hasShadow
             THEN ShadowMapUniformCalls(l, light)
                  \o (IF light.type = "directional" THEN CascadeUniformCalls(l, light)
                      ELSE <<>>)
             ELSE <<>>)

\* one object of a colour pass: its matrices, then the draw call.  The material
\* uniforms and the material textures (units 0 to 4) sent in between are left out:
\* they touch neither the light struct nor the units from 5 on.
ColourObjectCalls(l, name) ==
    << Call("setUniformMatrix4fv", l, -1, <<"M", -1, name>>),
       Call("setUniformMatrix4fv", l, -1, <<"M_it", -1, name>>),
       Call("draw", l, -1, <<name>>) >>

\* the colour pass of one enabled light
ColourPassCalls(l, light, first_light, cam) ==
    BlendCalls(l, first_light)
    \o << Call("useProgram", l, -1, <<Obj("program", light.type, 0, 0)>>),
          Call("setUniformMatrix4fv", l, -1, <<"VP", -1, cam>>),
          Call("setUniform3f", l, -1, <<"cam_position", -1, cam>>) >>
    \o LightPropertyCalls(l, light)
    \o ShadowUniformCalls(l, light)
    \o Flatten([k \in 1..Len(ObjectNames) |-> ColourObjectCalls(l, ObjectNames[k])])

RECURSIVE ColourLoop(_, _, _, _)
\* for(const light of this.lights) from light l on, with the loop's first_light flag
ColourLoop(ls, l, first_light, cam) ==
    IF l > Len(ls) THEN <<>>
    ELSE IF ~ls[l].enabled THEN ColourLoop(ls, l + 1, first_light, cam)
    ELSE ColourPassCalls(l, ls[l], first_light, cam) \o ColourLoop(ls, l + 1, FALSE, cam)

\* a second half that goes back to the canvas without resetting the viewport
ColourPhaseCalls_KeepsViewport(ls, cam) ==
    << Call("bindFramebuffer", 0, -1, <<NoObj>>),
       Call("clear", 0, -1, <<{"COLOR_BUFFER_BIT", "DEPTH_BUFFER_BIT"}>>) >>
    \o ColourLoop(ls, 1, TRUE, cam)

\* the calls of the second half of draw()
ColourPhaseCalls(ls, cam) ==
    << Call("bindFramebuffer", 0, -1, <<NoObj>>),
       Call("viewport", 0, -1, <<0, 0, DrawingBufferWidth, DrawingBufferHeight>>),
       Call("clear", 0, -1, <<{"COLOR_BUFFER_BIT", "DEPTH_BUFFER_BIT"}>>) >>
    \o ColourLoop(ls, 1, TRUE, cam)

\* a frame that shades before it renders the shadow maps
FrameCalls_ColourFirst(ls, cam, incomplete) ==
    ColourPhaseCalls(ls, cam) \o ShadowPhaseCalls(ls, incomplete)

\* every API call of one draw(), in the order the code issues them
FrameCalls(ls, cam, incomplete) ==
    ShadowPhaseCalls(ls, incomplete) \o ColourPhaseCalls(ls, cam)

---------------------------------------------------------------------------
(* The WebGL state machine: what each call does to the context *)

\* gl.enable(cap) / gl.disable(cap)
SetCapability(g, cap, on) ==
    CASE cap = "BLEND" -> [g EXCEPT !.blend = on]
      [] cap = "POLYGON_OFFSET_FILL" -> [g EXCEPT !.polygonOffsetFill = on]
      [] cap = "CULL_FACE" -> [g EXCEPT !.cullFace = on]
      [] cap = "DEPTH_TEST" -> [g EXCEPT !.depthTest = on]
      [] OTHER -> g

\* the context after one call
GLStep(g, c) ==
    CASE c.op = "enable" -> SetCapability(g, c.args[1], TRUE)
      [] c.op = "disable" -> SetCapability(g, c.args[1], FALSE)
      [] c.op = "blendEquation" -> [g EXCEPT !.blendEquation = c.args[1]]
      [] c.op = "blendFunc" -> [g EXCEPT !.blendSrc = c.args[1], !.blendDst = c.args[2]]
      [] c.op = "depthFunc" -> [g EXCEPT !.depthFunc = c.args[1]]
      [] c.op = "clearColor" -> [g EXCEPT !.clearColor = c.args]
      [] c.op = "polygonOffset" -> [g EXCEPT !.polygonOffset = <<c.args[1], c.args[2]>>]
      [] c.op = "bindFramebuffer" -> [g EXCEPT !.framebuffer = c.args[1]]
      [] c.op = "framebufferTexture2D" -> [g EXCEPT !.depthAttachment = c.args[1]]
      [] c.op = "viewport" -> [g EXCEPT !.viewport = c.args]
      [] c.op = "useProgram" -> [g EXCEPT !.program = c.args[1]]
      [] c.op = "activeTexture" -> [g EXCEPT !.activeTexture = c.args[1]]
      [] c.op = "bindTexture" -> [g EXCEPT !.textureUnits[g.activeTexture] = c.args[1]]
      [] c.op = "bindSampler" -> [g EXCEPT !.samplerUnits[c.args[1]] = c.args[2]]
      [] OTHER -> g       \* clear, uniforms, status checks and draws keep the state

UniformSetters == {"setUniform1f", "setUniform1i", "setUniform3f", "setUniformMatrix4fv"}

\* the uniforms of the light struct (and cam_position) the shadow lookup reads
ShadowLookupUniforms ==
    {"light.hasShadow", "light.shadowVPs", "light.shadowMaps", "light.cascades",
     "light.active_cascades", "cam_position"}

\* the uniforms set on the program in use since it was put in use
UniformsStep(u, c) ==
    IF c.args[1] \in ShadowLookupUniforms
    THEN Append(u, [name |-> c.args[1], idx |-> c.args[2], value |-> c.args[3]])
    ELSE u

\* a mesh draw call, with the state of the context it runs under
DrawRecord(g, u, c) ==
    [light |-> c.l, sub |-> c.i, object |-> c.args[1],
     framebuffer |-> g.framebuffer, depthAttachment |-> g.depthAttachment,
     viewport |-> g.viewport, program |-> g.program,
     blend |-> g.blend, blendEquation |-> g.blendEquation,
     blendSrc |-> g.blendSrc, blendDst |-> g.blendDst,
     polygonOffsetFill |-> g.polygonOffsetFill, polygonOffset |-> g.polygonOffset,
     uniforms |-> u]

\* The colour of the followed pixel is one channel in tenths, as the colours of
\* the lights are; a channel of the canvas holds 0.0 to 1.0.
ColourMax == 10

Clamp(c) == IF c > ColourMax THEN ColourMax ELSE IF c < 0 THEN 0 ELSE c

\* depth buffer values at the pixel: 0..MaxDepth for fragments, and the 1.0 a
\* clear leaves, behind them all
MaxDepth == 2

FarDepth == MaxDepth + 1

\* the object has no fragment at the pixel
NoDepth == -1

\* the colour light l's program computes for the fragment of the k-th object at
\* the pixel (tenths): its material shaded by that light, shadow factor included
ShadedColours ==
    << <<1, 2, 1>>, <<2, 1, 3>>, <<3, 4, 2>>, <<4, 2, 5>> >>

ObjectIndex(name) == CHOOSE k \in DOMAIN ObjectNames : ObjectNames[k] = name

Shade(l, name) == ShadedColours[l][ObjectIndex(name)]

\* a depth test that lets only strictly nearer fragments through
DepthPasses_Less(func, depth, stored) == depth < stored

\* the depth test of the per-fragment operations
DepthPasses(func, depth, stored) ==
    CASE func = "LEQUAL" -> depth <= stored
      [] func = "LESS" -> depth < stored
      [] OTHER -> TRUE

\* a blend factor applied to one channel
BlendFactor(factor, c) ==
    CASE factor = "ONE" -> c
      [] factor = "ZERO" -> 0
      [] OTHER -> c

\* the colour written for source colour src over dst (blendEquation FUNC_ADD)
Blended(g, src, dst) ==
    IF g.blend
    THEN Clamp(BlendFactor(g.blendSrc, src) + BlendFactor(g.blendDst, dst))
    ELSE src

\* gl.clear(mask) at the pixel: the canvas only, colour and depth as the mask says
PixelClear(px, g, mask) ==
    IF px = NoPixel \/ g.framebuffer # NoObj THEN px
    ELSE [px EXCEPT !.colour = IF "COLOR_BUFFER_BIT" \in mask THEN g.clearColor[1] ELSE @,
                    !.depth = IF "DEPTH_BUFFER_BIT" \in mask THEN FarDepth ELSE @]

\* a mesh drawn on the canvas, at the pixel: the object's fragment there, if it
\* has one, goes through the depth test, and when it passes its depth is written
\* and its colour is written or blended
PixelDraw(px, g, c) ==
    IF px = NoPixel \/ g.framebuffer # NoObj THEN px
    ELSE IF px.depths[c.args[1]] = NoDepth THEN px
    ELSE IF ~g.depthTest
    THEN [px EXCEPT !.colour = Blended(g, Clamp(Shade(c.l, c.args[1])), @)]
    ELSE IF ~DepthPasses(g.depthFunc, px.depths[c.args[1]], px.depth) THEN px
    ELSE [px EXCEPT !.colour = Blended(g, Clamp(Shade(c.l, c.args[1])), @),
                    !.depth = px.depths[c.args[1]]]

\* one call executed from st = [gl, uniforms, draws, pixel]
ExecCall(st, c) ==
    IF c.op \in UniformSetters
    THEN [st EXCEPT !.uniforms = UniformsStep(@, c)]
    ELSE IF c.op = "draw"
    THEN [st EXCEPT !.draws = Append(@, DrawRecord(st.gl, st.uniforms, c)),
                    !.pixel = PixelDraw(@, st.gl, c)]
    ELSE IF c.op = "clear"
    THEN [st EXCEPT !.pixel = PixelClear(@, st.gl, c.args[1])]
    ELSE IF c.op = "useProgram"
    THEN [st EXCEPT !.gl = GLStep(@, c), !.uniforms = <<>>]
    ELSE [st EXCEPT !.gl = GLStep(@, c)]

RECURSIVE Exec(_, _, _, _)
\* the calls cs[lo..hi] executed in order from st: up to four in a row, more by halves
Exec(st, cs, lo, hi) ==
    CASE lo > hi -> st
      [] lo = hi -> ExecCall(st, cs[lo])
      [] lo + 1 = hi -> ExecCall(ExecCall(st, cs[lo]), cs[hi])
      [] lo + 2 = hi -> ExecCall(ExecCall(ExecCall(st, cs[lo]), cs[lo + 1]), cs[hi])
      [] lo + 3 = hi ->
            ExecCall(ExecCall(ExecCall(ExecCall(st, cs[lo]), cs[lo + 1]), cs[lo + 2]), cs[hi])
      [] OTHER ->
            \* the first half is evaluated before the second half starts
            Once((lo + hi) \div 2, LAMBDA mid :
            Once(Exec(st, cs, lo, mid), LAMBDA left : Exec(left, cs, mid + 1, hi)))

\* a sequence of calls executed on context g, the pixel px followed
RunOn(g, px, cs) ==
    Exec([gl |-> g, uniforms |-> <<>>, draws |-> <<>>, pixel |-> px], cs, 1, Len(cs))

\* a sequence of calls executed on context g
Run(g, cs) == RunOn(g, NoPixel, cs)

---------------------------------------------------------------------------
(* The scene's handlers *)

\* an allocation that gives the directional light every slot the shader has
AllocateShadowMaps_AllSlots(l, light) ==
    CASE light.type = "spot" ->
            [light EXCEPT !.shadowMaps = AssignPrefix(@, << ShadowMapTex(l, 0) >>)]
      [] light.type = "directional" ->
            [light EXCEPT !.shadowMaps =
                AssignPrefix(@, [k \in 1..MAX_CASCADES |-> ShadowMapTex(l, k - 1)])]
      [] light.type = "point" ->
            [light EXCEPT !.shadowMaps =
                AssignPrefix(@, [k \in 1..Len(PointShadowUps) |-> ShadowMapTex(l, k - 1)])]
      [] OTHER -> light

\* the shadow maps start() allocates for one light (its shadowMaps array after it)
AllocateShadowMaps(l, light) ==
    CASE light.type = "spot" ->
            [light EXCEPT !.shadowMaps = AssignPrefix(@, << ShadowMapTex(l, 0) >>)]
      [] light.type = "directional" ->
            [light EXCEPT !.shadowMaps =
                AssignPrefix(@, [k \in 1..Len(light.cascades) |-> ShadowMapTex(l, k - 1)])]
      [] light.type = "point" ->
            [light EXCEPT !.shadowMaps =
                AssignPrefix(@, [k \in 1..Len(PointShadowUps) |-> ShadowMapTex(l, k - 1)])]
      [] OTHER -> light

\* the GPU objects start() creates besides the shadow maps
StartObjects ==
    {Obj("program", n, 0, 0) : n \in {"ambient", "directional", "point", "spot", "shadow"}}
    \cup {Obj("mesh", n, 0, 0) : n \in {"ground", "suzanne", "house"}}
    \cup {Obj("texture", n, 0, 0) :
            n \in {"wood.albedo", "wood.roughness", "wood.specular", "suzanne.ao",
                   "house.albedo", "ground.albedo", "ground.specular", "ground.roughness",
                   "white", "black", "grey"}}
    \cup {Obj("sampler", n, 0, 0) : n \in {"regular", "shadow"}}
    \cup {Obj("framebuffer", "frameBuffer", 0, 0)}

\* the context calls at the end of start()
StartCalls ==
    << Call("enable", 0, -1, <<"CULL_FACE">>),
       Call("cullFace", 0, -1, <<"BACK">>),
       Call("frontFace", 0, -1, <<"CCW">>),
       Call("enable", 0, -1, <<"DEPTH_TEST">>),
       Call("depthFunc", 0, -1, <<"LEQUAL">>),
       Call("clearColor", 0, -1, <<1, 1, 1, 10>>) >>

\* start(): programs, meshes, textures, samplers, shadow maps, framebuffer, camera
Start ==
    /\ phase = "constructed"
    /\ phase' = "started"
    /\ lastOp' = "start"
    /\ lights' = [l \in DOMAIN lights |-> AllocateShadowMaps(l, lights[l])]
    /\ gpu' = gpu \cup StartObjects
                  \cup UNION {{lights'[l].shadowMaps[k] : k \in DOMAIN lights'[l].shadowMaps} :
                                 l \in {j \in DOMAIN lights : lights[j].type # "ambient"}}
    /\ camPos' = <<500, 500, 500>>
    /\ gl' = Run(gl, StartCalls).gl
    /\ calls' = <<>>
    /\ draws' = <<>>
    /\ UNCHANGED <<frag, pixel, material>>

\* The context between two frames.  The capabilities and their parameters stay as
\* the frame left them; the bindings (program, attachment, texture and sampler
\* units) are followed from the start of each frame only: a frame that draws with
\* a binding it has not made itself draws with NoObj.
Unbound(g) ==
    [g EXCEPT !.program = NoObj, !.depthAttachment = NoObj, !.activeTexture = 0,
              !.textureUnits = [u \in 0..MaxTextureUnit |-> NoObj],
              !.samplerUnits = [u \in 0..MaxTextureUnit |-> NoObj]]

\* the positions the fly controller can move the camera to
CameraPositions == {<<500, 500, 500>>, <<0, 0, 0>>}

\* draw(deltaTime): the controller moves the camera to cam, then the frame is
\* drawn; the status checks of the sub-passes in incomplete report an incomplete
\* framebuffer
DrawFrame(cam, incomplete) ==
    /\ phase = "started"
    /\ lastOp' = IF lastOp \in {"draw", "redraw"} /\ cam = camPos THEN "redraw" ELSE "draw"
    /\ camPos' = cam
    /\ lights' = LightsAfterShadowLoop(lights, cam)
    /\ calls' = FrameCalls(lights', cam, incomplete)
    /\ LET r == RunOn(gl, pixel, calls')
       IN  /\ gl' = Unbound(r.gl)
           /\ draws' = r.draws
           /\ pixel' = r.pixel
    /\ UNCHANGED <<phase, gpu, frag, material>>

\* a frame whose framebuffer is complete in every sub-pass
Draw(cam) == DrawFrame(cam, {})

\* a handler of the control panel ran: the frame's trace is over
AfterEdit ==
    /\ phase = "started"
    /\ lastOp' = "ui"
    /\ calls' = <<>>
    /\ draws' = <<>>
    /\ UNCHANGED <<phase, camPos, gl, gpu, frag, pixel, material>>

\* <CheckBox value={light.enabled} onchange={(v)=>{light.enabled=v;}}/>
SetEnabled(l, v) ==
    /\ lights' = [lights EXCEPT ![l].enabled = v]
    /\ AfterEdit

\* <CheckBox value={light.hasShadow} onchange={(v)=>{light.hasShadow=v;}}/>
SetHasShadow(l, v) ==
    /\ lights[l].type # "ambient"
    /\ lights' = [lights EXCEPT ![l].hasShadow = v]
    /\ AfterEdit

\* end(): the programs and the meshes are disposed, the controls cleared
End ==
    /\ phase = "started"
    /\ phase' = "ended"
    /\ lastOp' = "end"
    /\ gpu' = {o \in gpu : o.kind \notin {"program", "mesh"}}
    /\ calls' = <<>>
    /\ draws' = <<>>
    /\ UNCHANGED <<lights, camPos, gl, frag, pixel, material>>

---------------------------------------------------------------------------
(* The shadow lookup of the fragment shaders (main, "float shadow = 1.0f" on).  *)
(* A visibility factor is kept in halves: 0 is occluded, FullyLit is 1.0.       *)
(* texture(map, coord) on a sampler2DShadow returns what the map's comparison   *)
(* gives at coord; the model takes it as an input, one value for each unit.     *)

FullyLit == 2

\* the result of a lookup: the factor, and the slots whose maps were fetched
Lookup(shadow, sampled) == [shadow |-> shadow, sampled |-> sampled]

\* a range test that leaves the boundary out
DistanceLeq_Strict(a, b, c) == c > 0 /\ Dot(VSub(a, b), VSub(a, b)) < c * c

\* distance(a, b) <= c, compared on the squares
DistanceLeq(a, b, c) == c >= 0 /\ Dot(VSub(a, b), VSub(a, b)) <= c * c

\* a lookup with the slots at which the loop indexed the light's arrays
Traced(lookup, examined) ==
    [shadow |-> lookup.shadow, sampled |-> lookup.sampled, examined |-> examined]

RECURSIVE CascadeLoop(_, _, _, _, _, _)
\* for(int i = 0; i < cascade_count; i++) from slot i on, with its break.  Every
\* iteration indexes light.cascades at i.  An index outside the arrays is
\* recorded and ends the loop: what such a read gives is undefined.
CascadeLoop(light, cam_position, v_world, maps, cascade_count, i) ==
    IF i >= cascade_count THEN Traced(Lookup(FullyLit, <<>>), <<>>)
    ELSE IF i \notin DOMAIN light.cascades THEN Traced(Lookup(FullyLit, <<>>), <<i>>)
    ELSE IF DistanceLeq(cam_position, v_world, light.cascades[i])
    THEN Traced(Lookup(maps[light.shadowMaps[i]], <<i>>), <<i>>)
    ELSE Once(CascadeLoop(light, cam_position, v_world, maps, cascade_count, i + 1),
              LAMBDA r : Traced(r, <<i>> \o r.examined))

\* a lookup that trusts light.active_cascades as the number of slots
DirectionalShadow_Uncapped(light, cam_position, v_world, maps) ==
    IF light.hasShadow
    THEN CascadeLoop(light, cam_position, v_world, maps, light.active_cascades, 0)
    ELSE Traced(Lookup(FullyLit, <<>>), <<>>)

\* a lookup that falls back on the last active cascade when none reaches
DirectionalShadow_LastAsFallback(light, cam_position, v_world, maps) ==
    IF light.hasShadow
    THEN LET cascade_count == IF light.active_cascades < MAX_CASCADES
                              THEN light.active_cascades ELSE MAX_CASCADES
             r == CascadeLoop(light, cam_position, v_world, maps, cascade_count, 0)
         IN  IF r.sampled = <<>> /\ cascade_count > 0
             THEN Traced(Lookup(maps[light.shadowMaps[cascade_count - 1]],
                                <<cascade_count - 1>>), r.examined)
             ELSE r
    ELSE Traced(Lookup(FullyLit, <<>>), <<>>)

\* directional.frag: the first cascade that reaches the fragment is fetched
DirectionalShadow(light, cam_position, v_world, maps) ==
    IF light.hasShadow
    THEN LET cascade_count == IF light.active_cascades < MAX_CASCADES
                              THEN light.active_cascades ELSE MAX_CASCADES
         IN  CascadeLoop(light, cam_position, v_world, maps, cascade_count, 0)
    ELSE Traced(Lookup(FullyLit, <<>>), <<>>)

Sign(x) == IF x > 0 THEN 1 ELSE IF x < 0 THEN -1 ELSE 0

\* The axes of the view mat4.lookAt builds: z from center to eye, x = up x z,
\* y = z x x, each normalized (1/1000).
ViewAxes(view) ==
    Once(Normalize(VSub(view.eye, view.center)), LAMBDA z :
    Once(Normalize(Cross(view.up, z)), LAMBDA x :
        [x |-> x, y |-> Normalize(Cross(z, x)), z |-> z]))

\* a world point in the space of the view
ViewCoord(view, p) ==
    Once(ViewAxes(view), LAMBDA a :
    Once(VSub(p, view.eye), LAMBDA d :
        <<Quot(Dot(a.x, d), 1000), Quot(Dot(a.y, d), 1000), Quot(Dot(a.z, d), 1000)>>))

\* vp * vec4(p, 1) for a perspective vp with a 90 degree field of view (its focal
\* factor 1 / tan(fovy / 2) is 1) and aspect 1; each component is a fraction
\* [num, den], and z carries the denominator near - far of the projection
ClipCoord(vp, p) ==
    LET near == vp.proj.near
        far == vp.proj.far
    IN  Once(ViewCoord(vp.view, p), LAMBDA v :
            [x |-> [num |-> v[1], den |-> 1],
             y |-> [num |-> v[2], den |-> 1],
             z |-> [num |-> (far + near) * v[3] + 2 * far * near, den |-> near - far],
             w |-> -v[3]])

\* shadowCoord /= shadowCoord.w, one component
DivideByW(c, w) == [num |-> c.num, den |-> c.den * w]

\* 0.5f * c + 0.5f, one component
Remap(c) == [num |-> c.num + c.den, den |-> 2 * c.den]

\* c >= 0.0f && c <= 1.0f for a fraction with a non-zero denominator
InUnitRange(c) ==
    /\ Sign(c.num) * Sign(c.den) >= 0
    /\ Sign(c.num - c.den) * Sign(c.den) <= 0

\* a range test on x and y alone
InRange_NoDepthTest(vp, p, onZero) ==
    Once(ClipCoord(vp, p), LAMBDA c :
        IF c.w = 0 THEN onZero
        ELSE /\ InUnitRange(Remap(DivideByW(c.x, c.w)))
             /\ InUnitRange(Remap(DivideByW(c.y, c.w))))

\* bool inRange of point.frag for one face; dividing by w = 0 has no defined
\* result in GLSL ES, and onZero is what the build makes of the comparison then
InRange(vp, p, onZero) ==
    Once(ClipCoord(vp, p), LAMBDA c :
        IF c.w = 0 THEN onZero
        ELSE /\ InUnitRange(Remap(DivideByW(c.x, c.w)))
             /\ InUnitRange(Remap(DivideByW(c.y, c.w)))
             /\ InUnitRange(Remap(DivideByW(c.z, c.w))))

RECURSIVE FaceLoop_Break(_, _, _, _, _)
\* a face loop that stops at the first face in range
FaceLoop_Break(light, v_world, maps, onZero, n) ==
    IF n = 0 THEN Lookup(FullyLit, <<>>)
    ELSE Once(FaceLoop_Break(light, v_world, maps, onZero, n - 1), LAMBDA r :
             IF r.sampled # <<>> THEN r
             ELSE IF InRange(light.shadowVPs[n - 1], v_world, onZero[n - 1])
             THEN Lookup(maps[light.shadowMaps[n - 1]], Append(r.sampled, n - 1))
             ELSE r)

RECURSIVE FaceLoop(_, _, _, _, _)
\* for(int i = 0; i < 6; i++): shadow, and the faces fetched, after the first n
\* turns of the loop
FaceLoop(light, v_world, maps, onZero, n) ==
    IF n = 0 THEN Lookup(FullyLit, <<>>)
    ELSE Once(FaceLoop(light, v_world, maps, onZero, n - 1), LAMBDA r :
             IF InRange(light.shadowVPs[n - 1], v_world, onZero[n - 1])
             THEN Lookup(maps[light.shadowMaps[n - 1]], Append(r.sampled, n - 1))
             ELSE r)

\* point.frag: every face in range is fetched, the last one stays
PointShadow(light, v_world, maps, onZero) ==
    IF light.hasShadow
    THEN FaceLoop(light, v_world, maps, onZero, 6)
    ELSE Lookup(FullyLit, <<>>)

\* the spot shader's lookup: the light's one map, with no range test
SpotShadow(light, v_world, maps) ==
    IF light.hasShadow
    THEN Lookup(maps[light.shadowMaps[0]], <<0>>)
    ELSE Lookup(FullyLit, <<>>)

\* The value of uniform name[idx] of the program in use: the last one set since
\* the program was put to use, or the one it kept from before (stale).
UniformOf(u, name, idx, stale) ==
    LET S == {k \in DOMAIN u : u[k].name = name /\ u[k].idx = idx}
    IN  IF S = {} THEN stale ELSE u[CHOOSE k \in S : \A j \in S : j <= k].value

\* the light struct a shader reads, from the uniforms set (u) and kept (stale);
\* a bool uniform is true for any value but 0
LightStruct(u, stale) ==
    [hasShadow |-> UniformOf(u, "light.hasShadow", -1, stale.hasShadow) # 0,
     active_cascades |-> UniformOf(u, "light.active_cascades", -1, stale.active_cascades),
     cascades |-> [i \in DOMAIN stale.cascades |->
                      UniformOf(u, "light.cascades", i, stale.cascades[i])],
     shadowVPs |-> [i \in DOMAIN stale.shadowVPs |->
                      UniformOf(u, "light.shadowVPs", i, stale.shadowVPs[i])],
     shadowMaps |-> [i \in DOMAIN stale.shadowMaps |->
                      UniformOf(u, "light.shadowMaps", i, stale.shadowMaps[i])]]

\* the lookup of the fragment shader of a light program
ShadowOf(type, light, cam_position, v_world, maps) ==
    CASE type = "directional" -> DirectionalShadow(light, cam_position, v_world, maps)
      [] type = "point" -> PointShadow(light, v_world, maps, [i \in 0..5 |-> FALSE])
      [] type = "spot" -> SpotShadow(light, v_world, maps)
      [] OTHER -> Lookup(FullyLit, <<>>)

---------------------------------------------------------------------------
(* One fragment through the directional shader: the uniforms and the fragment's *)
(* position are the inputs, Shade runs main's lookup on them.                   *)

\* the greatest light.active_cascades tried
MaxActive == 5

\* values of light.cascades[i] (1/100): a degenerate range and the first two defaults
CascadeRanges == {0, 200, 1000}

\* fragment positions, at distances 0, 200, 1000 and 2000 from the camera
DirectionalPoints == {<<0, 0, 0>>, <<200, 0, 0>>, <<0, 600, 800>>, <<2000, 0, 0>>}

\* the units draw() names in light.shadowMaps[i]
ShadowUnit(i) == 5 + i

\* what each unit's map answers to a fetch
MapAnswers == [u \in 0..MaxTextureUnit |-> u % 3]

Unshaded == [shaded |-> FALSE, shadow |-> FullyLit, sampled |-> <<>>]

DirectionalFragments ==
    [shader : {"directional"},
     light : [hasShadow : BOOLEAN,
              active_cascades : -1..MaxActive,
              cascades : [0..MAX_CASCADES - 1 -> CascadeRanges],
              shadowMaps : {[i \in 0..MAX_CASCADES - 1 |-> ShadowUnit(i)]}],
     cam_position : {<<0, 0, 0>>},
     v_world : DirectionalPoints,
     maps : {MapAnswers},
     out : {Unshaded}]

ShadeDirectional ==
    /\ frag.shader = "directional"
    /\ ~frag.out.shaded
    /\ LET r == DirectionalShadow(frag.light, frag.cam_position, frag.v_world, frag.maps)
       IN  frag' = [frag EXCEPT !.out = [shaded |-> TRUE, shadow |-> r.shadow,
                                         sampled |-> r.sampled,
                                         examined |-> r.examined]]
    /\ UNCHANGED sceneVars
    /\ UNCHANGED <<pixel, material>>

InitDirectional ==
    /\ SceneInit
    /\ frag \in DirectionalFragments
    /\ pixel = NoPixel
    /\ material = NoMaterial

NextDirectional == ShadeDirectional

SpecDirectional == InitDirectional /\ [][NextDirectional]_vars

---------------------------------------------------------------------------
(* One fragment through the point shader, with the matrices draw() builds for   *)
(* the scene's point light.                                                     *)

\* the fragments lie at whole offsets from the light, up to MaxOffset on each axis
MaxOffset == 2

Offsets == {<<x, y, z>> : x \in -MaxOffset..MaxOffset, y \in -MaxOffset..MaxOffset,
                          z \in -MaxOffset..MaxOffset}

\* the length of one offset step (1/100): inside the far plane, and beyond it
OffsetSteps == {100, 6000}

PointLightUniforms(light, hasShadow) ==
    [hasShadow |-> hasShadow,
     position |-> light.position,
     shadowVPs |-> [i \in 0..5 |-> PointShadowVPs(light)[i + 1]],
     shadowMaps |-> [i \in 0..5 |-> ShadowUnit(i)]]

PointFragments ==
    {[shader |-> "point",
      light |-> PointLightUniforms(InitialLights[3], h),
      offset |-> o,
      v_world |-> VAdd(InitialLights[3].position, <<o[1] * s, o[2] * s, o[3] * s>>),
      maps |-> MapAnswers,
      out |-> Unshaded] : h \in BOOLEAN, o \in Offsets, s \in OffsetSteps}

ShadePoint(onZero) ==
    /\ frag.shader = "point"
    /\ ~frag.out.shaded
    /\ LET r == PointShadow(frag.light, frag.v_world, frag.maps, onZero)
       IN  frag' = [frag EXCEPT !.out = [shaded |-> TRUE, shadow |-> r.shadow,
                                         sampled |-> r.sampled]]
    /\ UNCHANGED sceneVars
    /\ UNCHANGED <<pixel, material>>

InitPoint ==
    /\ SceneInit
    /\ frag \in PointFragments
    /\ pixel = NoPixel
    /\ material = NoMaterial

\* the faces whose division by w is a division by zero for this fragment
ZeroDepthFaces == {i \in 0..5 : ClipCoord(frag.light.shadowVPs[i], frag.v_world).w = 0}

\* the build may find any of those faces in range
NextPoint == \E Z \in SUBSET ZeroDepthFaces : ShadePoint([i \in 0..5 |-> i \in Z])

SpecPoint == InitPoint /\ [][NextPoint]_vars

Init ==
    /\ SceneInit
    /\ frag = NoFragment
    /\ pixel = NoPixel
    /\ material = NoMaterial

Next ==
    \/ Start
    \/ \E cam \in CameraPositions : Draw(cam)
    \/ \E l \in LightIds : SetEnabled(l, ~lights[l].enabled)
    \/ \E l \in LightIds : SetHasShadow(l, ~lights[l].hasShadow)
    \/ End

Spec == Init /\ [][Next]_vars

---------------------------------------------------------------------------
(* The shadow transforms under edited light fields.  The control panel edits a *)
(* light's vectors and numbers in place between frames; a run here begins when  *)
(* start() has returned and the panel has set the fields below, and goes on     *)
(* with frames and with edits of the spot light's outer cone.                   *)

\* <Vector vector={light.direction}/> of the directional light: every vector with
\* components -1, 0, 1 but the zero vector
Directions == {<<x, y, z>> : x \in -1..1, y \in -1..1, z \in -1..1} \ {<<0, 0, 0>>}

\* <NumberInput value={light.shadowDistance} .../>
ShadowDistances == {80000, 40000}

\* the rest of what the panel sets: the first cascade's size, the spot light's
\* direction, the point light's position, shadowNear and shadowFar, and the
\* <<shadowSlopeBias, shadowBias>> of the directional and of the point light
PanelSettings ==
    {[size |-> 200, spotDirection |-> <<0, -1, -1>>,
      position |-> <<0, 250, 0>>, shadowNear |-> 1, shadowFar |-> 10000,
      directionalBias |-> <<15, 10>>, pointBias |-> <<15, 10>>],
     [size |-> 500, spotDirection |-> <<1, 0, 0>>,
      position |-> <<100, 250, -300>>, shadowNear |-> 10, shadowFar |-> 5000,
      directionalBias |-> <<30, 20>>, pointBias |-> <<25, 5>>]}

\* the outer cone angles the panel sets, in degrees as it shows them
OuterCones == {54, 30}

\* the lights when start() has returned
StartedLights == [l \in LightIds |-> AllocateShadowMaps(l, InitialLights[l])]

\* the lights after the panel's edits of the directional, spot and point light
EditedLights(d, dist, ps) ==
    [StartedLights EXCEPT ![2].direction = d, ![2].shadowDistance = dist,
                          ![2].cascades[1] = ps.size, ![4].direction = ps.spotDirection,
                          ![3].position = ps.position, ![3].shadowNear = ps.shadowNear,
                          ![3].shadowFar = ps.shadowFar,
                          ![2].shadowSlopeBias = ps.directionalBias[1],
                          ![2].shadowBias = ps.directionalBias[2],
                          ![3].shadowSlopeBias = ps.pointBias[1],
                          ![3].shadowBias = ps.pointBias[2]]

InitFields ==
    /\ phase = "started"
    /\ lastOp = "ui"
    /\ lights \in {EditedLights(d, dist, ps) :
                      d \in Directions, dist \in ShadowDistances, ps \in PanelSettings}
    /\ camPos = <<500, 500, 500>>
    /\ gl = Run(InitialGL, StartCalls).gl
    /\ gpu = StartObjects
               \cup UNION {{StartedLights[l].shadowMaps[k] : k \in DOMAIN StartedLights[l].shadowMaps} :
                              l \in {j \in LightIds : InitialLights[j].type # "ambient"}}
    /\ calls = <<>>
    /\ draws = <<>>
    /\ frag = NoFragment
    /\ pixel = NoPixel
    /\ material = NoMaterial

\* <NumberInput value={light.outer_cone*180/Math.PI}
\*              onchange={(v)=>{light.outer_cone=v * Math.PI / 180;}}/>
SetOuterCone(l, v) ==
    /\ lights[l].type = "spot"
    /\ lights' = [lights EXCEPT ![l].outer_cone = v]
    /\ AfterEdit

NextFields ==
    \/ \E cam \in CameraPositions : Draw(cam)
    \/ \E l \in {j \in LightIds : lights[j].type = "spot"} :
          \E v \in OuterCones \ {lights[l].outer_cone} : SetOuterCone(l, v)

SpecFields == InitFields /\ [][NextFields]_vars

---------------------------------------------------------------------------
(* Frames drawn with the directional or the spot light aimed by the panel at    *)
(* any integer vector of a small cube, the zero vector included.                *)

MaxComponent == 2

\* <Vector vector={light.direction}/>: what the three number fields can hold
AimVectors ==
    {<<x, y, z>> : x \in -MaxComponent..MaxComponent, y \in -MaxComponent..MaxComponent,
                   z \in -MaxComponent..MaxComponent}

InitAim ==
    /\ phase = "started"
    /\ lastOp = "ui"
    /\ lights \in {[StartedLights EXCEPT ![l].direction = d] :
                      l \in {j \in LightIds : InitialLights[j].type \in {"directional", "spot"}},
                      d \in AimVectors}
    /\ camPos = <<500, 500, 500>>
    /\ gl = Run(InitialGL, StartCalls).gl
    /\ gpu = StartObjects
               \cup UNION {{StartedLights[l].shadowMaps[k] : k \in DOMAIN StartedLights[l].shadowMaps} :
                              l \in {j \in LightIds : InitialLights[j].type # "ambient"}}
    /\ calls = <<>>
    /\ draws = <<>>
    /\ frag = NoFragment
    /\ pixel = NoPixel
    /\ material = NoMaterial

NextAim == \E cam \in CameraPositions : Draw(cam)

SpecAim == InitAim /\ [][NextAim]_vars

---------------------------------------------------------------------------
(* Frames whose framebuffer status checks fail.  What checkFramebufferStatus    *)
(* returns is the context's answer: any sub-pass of a frame may be told that    *)
(* its target is incomplete.                                                    *)

\* the shadow sub-passes a frame drawn now runs: <<light, map index>>
SubPassesNow ==
    UNION {{<<l, k - 1>> : k \in DOMAIN lights[l].shadowMaps} :
              l \in {j \in LightIds : CastsShadow(lights[j])}}

\* the sets of sub-passes reported incomplete in one frame: none, any one, all
StatusReports == {{}} \cup {{sp} : sp \in SubPassesNow} \cup {SubPassesNow}

NextStatus ==
    \/ Start
    \/ \E incomplete \in StatusReports : DrawFrame(camPos, incomplete)
    \/ \E l \in LightIds : SetHasShadow(l, ~lights[l].hasShadow)

SpecStatus == Init /\ [][NextStatus]_vars

---------------------------------------------------------------------------
(* The scene with a directional light of one to MAX_CASCADES cascades.  The    *)
(* number of cascades is the length of the cascades array the light is given   *)
(* in the class initializer; the panel edits the sizes and never the length.   *)

\* the cascades arrays the directional light is given
CascadeLists ==
    {<<200>>, <<1000>>, <<200, 1000>>, <<500, 500>>, <<200, 1000, 10000>>,
     <<200, 1000, 10000, 50000>>, <<100, 200, 400, 800>>}

InitCascades ==
    /\ phase = "constructed"
    /\ lastOp = "new"
    /\ lights \in {[InitialLights EXCEPT ![2].cascades = cs] : cs \in CascadeLists}
    /\ camPos = <<0, 0, 0>>
    /\ gl = InitialGL
    /\ gpu = {}
    /\ calls = <<>>
    /\ draws = <<>>
    /\ frag = NoFragment
    /\ pixel = NoPixel
    /\ material = NoMaterial

NextCascades ==
    \/ Start
    \/ \E cam \in CameraPositions : Draw(cam)
    \/ \E l \in {j \in LightIds : lights[j].type = "directional"} :
          SetHasShadow(l, ~lights[l].hasShadow)
    \/ \E l \in {j \in LightIds : lights[j].type = "ambient"} :
          SetEnabled(l, ~lights[l].enabled)

SpecCascades == InitCascades /\ [][NextCascades]_vars

---------------------------------------------------------------------------
(* One pixel of the canvas through the colour passes.  Each object has at most  *)
(* one fragment at the pixel, at a depth that is the same in every pass (every  *)
(* pass draws the same meshes with the same matrices); two objects may have     *)
(* their fragments at the same depth.  A run begins when start() has returned   *)
(* and the panel's enabled check boxes have been set, and goes on with frames.  *)

\* the depths of the objects' fragments at the pixel
FragmentDepths == [{ObjectNames[k] : k \in DOMAIN ObjectNames} -> {NoDepth} \cup (0..MaxDepth)]

\* the pixel before the first frame: nothing drawn, nothing cleared yet
Pixels ==
    {[covered |-> "pixel", depths |-> d, colour |-> 0, depth |-> FarDepth] :
        d \in FragmentDepths}

\* <CheckBox value={light.enabled} onchange={(v)=>{light.enabled=v;}}/>, any of them
EnabledChoices ==
    {[l \in LightIds |-> [StartedLights[l] EXCEPT !.enabled = l \in on]] : on \in SUBSET LightIds}

InitPixel ==
    /\ phase = "started"
    /\ lastOp = "ui"
    /\ lights \in EnabledChoices
    /\ camPos = <<500, 500, 500>>
    /\ gl = Run(InitialGL, StartCalls).gl
    /\ gpu = StartObjects
               \cup UNION {{StartedLights[l].shadowMaps[k] : k \in DOMAIN StartedLights[l].shadowMaps} :
                              l \in {j \in LightIds : InitialLights[j].type # "ambient"}}
    /\ calls = <<>>
    /\ draws = <<>>
    /\ frag = NoFragment
    /\ pixel \in Pixels
    /\ material = NoMaterial

NextPixel == Draw(camPos)

SpecPixel == InitPixel /\ [][NextPixel]_vars

\* The colour the single-pass scene leaves at the pixel: the canvas is cleared,
\* every object is drawn once with BLEND disabled and the depth test LEQUAL, and
\* the shader adds up the lights whose enabled flag is set.  Of the fragments at
\* the least depth the one drawn last stays.
SinglePassColour(px, ls, g) ==
    LET covering == {k \in DOMAIN ObjectNames : px.depths[ObjectNames[k]] # NoDepth}
        nearest == {k \in covering :
                       \A j \in covering : px.depths[ObjectNames[k]] <= px.depths[ObjectNames[j]]}
        last == CHOOSE k \in nearest : \A j \in nearest : j <= k
        on == {l \in DOMAIN ls : ls[l].enabled}
        RECURSIVE Sum(_)
        Sum(S) == IF S = {} THEN 0
                  ELSE LET l == CHOOSE x \in S : TRUE
                       IN  Shade(l, ObjectNames[last]) + Sum(S \ {l})
    IN  IF covering = {} THEN g.clearColor[1] ELSE Clamp(Sum(on))

---------------------------------------------------------------------------
(* The Material class: named properties kept in an object, applied to the       *)
(* shader by use().  material.properties is the object's own properties in the  *)
(* order they were created; material.issued is the calls the last use() made    *)
(* on the shader; material.inserted remembers the order in which the names      *)
(* were first set.                                                              *)

\* property names: two uniform names, and two names that are array indices
PropertyNames == {"material.albedo", "material.specular", "9", "10"}

\* the names that are canonical array indices, with the integer each one writes
ArrayIndexOf == [n \in {"9", "10"} |-> IF n = "9" THEN 9 ELSE 10]

IsArrayIndex(name) == name \in DOMAIN ArrayIndexOf

Textures == {"albedo.png", "specular.png"}

\* new Material(shader): no property, current_unit not assigned
NewMaterial ==
    [shader |-> "program", properties |-> <<>>, current_unit |-> "undefined",
     issued |-> <<>>, inserted |-> <<>>, lastOp |-> "new"]

\* this.properties[name] = {value: value, fn: fn}: an existing property keeps its
\* place and takes the new value, a new one is created after the others
Assign(properties, name, value, fn) ==
    IF \E k \in DOMAIN properties : properties[k].name = name
    THEN [k \in DOMAIN properties |->
             IF properties[k].name = name
             THEN [name |-> name, value |-> value, fn |-> fn]
             ELSE properties[k]]
    ELSE Append(properties, [name |-> name, value |-> value, fn |-> fn])

RECURSIVE AscendingIndices(_)
\* the array-index names in S in ascending numeric order
AscendingIndices(S) ==
    IF S = {} THEN <<>>
    ELSE LET least == CHOOSE n \in S : \A o \in S : ArrayIndexOf[n] <= ArrayIndexOf[o]
         IN  <<least>> \o AscendingIndices(S \ {least})

\* for(const name in this.properties): the array-index names in ascending
\* numeric order, then the other names in the order of their creation
ForIn(properties) ==
    AscendingIndices({properties[k].name : k \in {j \in DOMAIN properties :
                                                    IsArrayIndex(properties[j].name)}})
    \o [k \in DOMAIN SelectSeq(properties, LAMBDA p : ~IsArrayIndex(p.name)) |->
           SelectSeq(properties, LAMBDA p : ~IsArrayIndex(p.name))[k].name]

\* this.properties[name]
PropertyOf(properties, name) ==
    properties[CHOOSE k \in DOMAIN properties : properties[k].name = name]

\* fn(this, name, value) on st = [current_unit, issued]: Material.setUniform1f
\* forwards to the shader, Material.setTexture passes mat.current_unit++
ApplyProperty(st, p) ==
    IF p.fn = "setTexture"
    THEN [current_unit |-> st.current_unit + 1,
          issued |-> Append(st.issued, [op |-> "setTexture", name |-> p.name,
                                        unit |-> st.current_unit, value |-> p.value])]
    ELSE [current_unit |-> st.current_unit,
          issued |-> Append(st.issued, [op |-> p.fn, name |-> p.name,
                                        unit |-> -1, value |-> p.value])]

RECURSIVE ApplyProperties(_, _, _, _)
\* the body of the loop of use() for names[k..]
ApplyProperties(st, properties, names, k) ==
    IF k > Len(names) THEN st
    ELSE ApplyProperties(ApplyProperty(st, PropertyOf(properties, names[k])),
                         properties, names, k + 1)

\* a use() that, right after a use(), goes on counting units where that one stopped
MaterialUse_UnitKept(m) ==
    LET st == ApplyProperties([current_unit |-> IF m.lastOp = "use" THEN m.current_unit ELSE 0,
                               issued |-> << [op |-> "use", name |-> "", unit |-> -1,
                                              value |-> <<>>] >>],
                              m.properties, ForIn(m.properties), 1)
    IN  [m EXCEPT !.current_unit = st.current_unit, !.issued = st.issued, !.lastOp = "use"]

\* use(): current_unit = 0, shader.use(), then every property's setter
MaterialUse(m) ==
    LET st == ApplyProperties([current_unit |-> 0,
                               issued |-> << [op |-> "use", name |-> "", unit |-> -1,
                                              value |-> <<>>] >>],
                              m.properties, ForIn(m.properties), 1)
    IN  [m EXCEPT !.current_unit = st.current_unit, !.issued = st.issued, !.lastOp = "use"]

\* a setter of the class ran: the property is assigned; the calls of the use()
\* before are no longer followed
MaterialSet(name, value, fn) ==
    /\ material # NoMaterial
    /\ material' = [material EXCEPT
                       !.properties = Assign(@, name, value, fn),
                       !.inserted = IF \E k \in DOMAIN @ : @[k] = name THEN @
                                    ELSE Append(@, name),
                       !.issued = <<>>,
                       !.lastOp = "set"]
    /\ UNCHANGED <<sceneVars, frag, pixel>>

\* public setUniform1f(name, x)
Material_setUniform1f(name, x) == MaterialSet(name, x, "setUniform1f")

\* public setTexture(name, target, texture, sampler)
Material_setTexture(name, target, texture, sampler) ==
    MaterialSet(name, <<target, texture, sampler>>, "setTexture")

\* public use()
Material_use ==
    /\ material # NoMaterial
    /\ material' = MaterialUse(material)
    /\ UNCHANGED <<sceneVars, frag, pixel>>

InitMaterial ==
    /\ SceneInit
    /\ frag = NoFragment
    /\ pixel = NoPixel
    /\ material = NewMaterial

NextMaterial ==
    \/ \E name \in PropertyNames : Material_setUniform1f(name, 5)
    \/ \E name \in PropertyNames : \E texture \in Textures :
          Material_setTexture(name, "TEXTURE_2D", texture, "sampler")
    \/ Material_use

SpecMaterial == InitMaterial /\ [][NextMaterial]_vars

---------------------------------------------------------------------------
(* Properties of a frame.  After draw(), calls holds the frame's API calls and  *)
(* draws one record for each mesh drawn, with the context it was drawn under.   *)

AfterFrame == lastOp \in {"draw", "redraw"}

\* a draw that went to the canvas (the colour passes) or to the shadow framebuffer
OnCanvas(d) == d.framebuffer = NoObj

EnabledLights == {l \in LightIds : lights[l].enabled}

CastingLights == {l \in LightIds : lights[l].enabled /\ lights[l].hasShadow}

FirstEnabled == CHOOSE l \in EnabledLights : \A m \in EnabledLights : l <= m

CanvasDraws == {k \in DOMAIN draws : OnCanvas(draws[k])}

ShadowDraws == {k \in DOMAIN draws : ~OnCanvas(draws[k])}

\* C1: in every frame the meshes of the first enabled light are drawn with BLEND
\* disabled and the meshes of every later enabled light with BLEND enabled, the
\* equation FUNC_ADD and the factors (ONE, ONE), whichever lights are enabled and
\* whatever blending the frame before left in the context.
C1_FirstLightOpaqueLaterAdditive ==
    AfterFrame =>
        \A k \in CanvasDraws :
            IF draws[k].light = FirstEnabled
            THEN ~draws[k].blend
            ELSE /\ draws[k].blend
                 /\ draws[k].blendEquation = "FUNC_ADD"
                 /\ draws[k].blendSrc = "ONE"
                 /\ draws[k].blendDst = "ONE"

\* a second frame in a row with several lights on, the first of them not the
\* first of the list: the frame before left BLEND enabled
C1_Witness ==
    /\ lastOp = "redraw"
    /\ gl.blend
    /\ Cardinality(EnabledLights) >= 2
    /\ FirstEnabled # 1
    /\ \E k \in CanvasDraws : draws[k].light = FirstEnabled /\ ~draws[k].blend
    /\ \E k \in CanvasDraws : draws[k].light # FirstEnabled /\ draws[k].blend

\* the colour passes of a frame, counted by the light programs it puts to use
ShadingPasses ==
    {k \in DOMAIN calls : calls[k].op = "useProgram" /\ calls[k].args[1].name # "shadow"}

\* C2: a frame runs as many shading passes as there are enabled lights; a
\* disabled light gets no call of its own, neither a shadow sub-pass nor a shading
\* pass, even with hasShadow set; and with no light enabled the frame draws
\* nothing on the canvas after the colour and depth clear.
C2_OnePassPerEnabledLight ==
    AfterFrame =>
        /\ Cardinality(ShadingPasses) = Cardinality(EnabledLights)
        /\ {draws[k].light : k \in CanvasDraws} = EnabledLights
        /\ \A l \in LightIds \ EnabledLights :
              /\ \A k \in DOMAIN calls : calls[k].l # l
              /\ \A k \in DOMAIN draws : draws[k].light # l
        /\ EnabledLights = {} =>
              /\ draws = <<>>
              /\ calls[Len(calls)].op = "clear"
              /\ calls[Len(calls)].args[1] = {"COLOR_BUFFER_BIT", "DEPTH_BUFFER_BIT"}

\* a frame with a disabled light that still has hasShadow set, next to an enabled one
C2_Witness ==
    /\ AfterFrame
    /\ \E l \in LightIds : ~lights[l].enabled /\ lights[l].hasShadow
    /\ EnabledLights # {}
    /\ CanvasDraws # {}

\* the shadow sub-pass a draw belongs to, by the light and the map's index
SubPassOf(d) == <<d.light, d.sub>>

LexLeq(a, b) == a[1] < b[1] \/ (a[1] = b[1] /\ a[2] <= b[2])

\* C3: within a frame every shadow draw comes before every colour draw; shadow
\* sub-passes are run for exactly the enabled lights with hasShadow, in list
\* order, each light's maps in ascending index and each into its own map; the
\* colour passes are run for exactly the enabled lights, in list order.
C3_ShadowPassesThenColourPasses ==
    AfterFrame =>
        /\ \A j \in CanvasDraws : \A k \in ShadowDraws : k < j
        /\ \A j \in ShadowDraws : \A k \in ShadowDraws :
              j < k => LexLeq(SubPassOf(draws[j]), SubPassOf(draws[k]))
        /\ {SubPassOf(draws[k]) : k \in ShadowDraws}
              = UNION {{<<l, i - 1>> : i \in DOMAIN lights[l].shadowMaps} : l \in CastingLights}
        /\ \A k \in ShadowDraws :
              draws[k].depthAttachment = lights[draws[k].light].shadowMaps[draws[k].sub + 1]
        /\ \A j \in CanvasDraws : \A k \in CanvasDraws :
              j < k => draws[j].light <= draws[k].light
        /\ {draws[k].light : k \in CanvasDraws} = EnabledLights

\* a frame with two casting lights and an enabled light that casts nothing
C3_Witness ==
    /\ AfterFrame
    /\ Cardinality(CastingLights) >= 2
    /\ EnabledLights # CastingLights
    /\ ShadowDraws # {}
    /\ CanvasDraws # {}

ShadowCapable == {l \in LightIds : lights[l].type # "ambient"}

\* the shadow map textures alive on the GPU
ShadowMapsOf(objects) == {o \in objects : o.kind = "texture" /\ o.name = "shadowMap"}

\* C8: from start() on a spot light holds one shadow map, the directional light
\* one for each cascade and no more than MAX_CASCADES, a point light six, whatever
\* enabled and hasShadow are; and no step after start(), a frame least of all,
\* allocates, drops or replaces a shadow map.
C8_ShadowSetsAllocatedOnce ==
    /\ [](phase # "constructed" =>
            \A l \in ShadowCapable :
                /\ lights[l].type = "spot" => Len(lights[l].shadowMaps) = 1
                /\ lights[l].type = "directional" =>
                      /\ Len(lights[l].shadowMaps) = Len(lights[l].cascades)
                      /\ Len(lights[l].shadowMaps) <= MAX_CASCADES
                /\ lights[l].type = "point" => Len(lights[l].shadowMaps) = 6
                /\ \A k \in DOMAIN lights[l].shadowMaps : lights[l].shadowMaps[k] \in gpu)
    /\ [][phase # "constructed" =>
            /\ \A l \in ShadowCapable : lights'[l].shadowMaps = lights[l].shadowMaps
            /\ ShadowMapsOf(gpu') = ShadowMapsOf(gpu)]_vars

\* a frame drawn while a light is disabled and another has its shadows turned off
C8_Witness ==
    /\ AfterFrame
    /\ \E l \in ShadowCapable : ~lights[l].enabled
    /\ \E l \in ShadowCapable : lights[l].enabled /\ ~lights[l].hasShadow
    /\ Cardinality(ShadowMapsOf(gpu)) = 1 + Len(lights[2].cascades) + 6

\* C10: a frame drawn right after a frame, with no light field edited and the
\* camera left where it was, leaves every light with the shadowVPs it had.
C10_ShadowVPsRepeat ==
    [][lastOp' = "redraw" =>
          \A l \in ShadowCapable : lights'[l].shadowVPs = lights[l].shadowVPs]_vars

\* such a second frame, with all three kinds of light casting
C10_Witness ==
    /\ lastOp = "redraw"
    /\ CastingLights = ShadowCapable
    /\ \A l \in ShadowCapable : Len(lights[l].shadowVPs) = Len(lights[l].shadowMaps)

---------------------------------------------------------------------------
(* Properties of the directional shader's lookup *)

DirectionalShaded == frag.shader = "directional" /\ frag.out.shaded

\* the fragment's distance from the camera (1/100), exact for DirectionalPoints
FragmentDistance ==
    ISqrt(Dot(VSub(frag.cam_position, frag.v_world), VSub(frag.cam_position, frag.v_world)))

\* the slots the loop may visit: below active_cascades and below MAX_CASCADES
ActiveSlots == {i \in 0..MAX_CASCADES - 1 : i < frag.light.active_cascades}

\* the active cascades whose limit is at least the fragment's distance
ReachingCascades == {i \in ActiveSlots : FragmentDistance <= frag.light.cascades[i]}

Least(S) == CHOOSE i \in S : \A j \in S : i <= j

\* C4: with shadows on, a fragment at distance d from the camera that some active
\* cascade reaches is looked up in exactly one map: that of the smallest active
\* index i with d <= cascades[i].
C4_FirstReachingCascadeSampled ==
    (DirectionalShaded /\ frag.light.hasShadow /\ ReachingCascades # {}) =>
        /\ frag.out.sampled = << Least(ReachingCascades) >>
        /\ frag.out.shadow = frag.maps[frag.light.shadowMaps[Least(ReachingCascades)]]

\* a fragment exactly on the limit of its cascade, which is neither the first
\* slot nor the only cascade that reaches it
C4_Witness ==
    /\ DirectionalShaded
    /\ frag.light.hasShadow
    /\ Cardinality(ReachingCascades) >= 2
    /\ Least(ReachingCascades) > 0
    /\ frag.light.cascades[Least(ReachingCascades)] = FragmentDistance
    /\ frag.out.sampled = << Least(ReachingCascades) >>

\* C5: with shadows on, a fragment farther from the camera than every active
\* cascade's limit is looked up in no map, and its visibility stays 1.
C5_BeyondLastCascadeLit ==
    (DirectionalShaded /\ frag.light.hasShadow /\ ReachingCascades = {}) =>
        /\ frag.out.sampled = <<>>
        /\ frag.out.shadow = FullyLit

\* a fragment beyond all four active cascades
C5_Witness ==
    /\ DirectionalShaded
    /\ frag.light.hasShadow
    /\ frag.light.active_cascades >= MAX_CASCADES
    /\ \A i \in ActiveSlots : frag.light.cascades[i] < FragmentDistance
    /\ frag.out.sampled = <<>>
    /\ frag.out.shadow = FullyLit

---------------------------------------------------------------------------
(* Properties of the point shader's lookup and of the six faces *)

PointShaded == frag.shader = "point" /\ frag.out.shaded

\* the fragment seen from the light (1/100)
FromLight == VSub(frag.v_world, frag.light.position)

\* the fragment's depth along face i
FaceDepth(i) == Dot(PointShadowDirections[i + 1], FromLight)

\* a fragment inside face i's frustum: between near and far along the face, and
\* no farther off the axis on either side than it is deep
InsideFace(i) ==
    LET t == FaceDepth(i)
        across == VSub(FromLight, <<t * PointShadowDirections[i + 1][1],
                                    t * PointShadowDirections[i + 1][2],
                                    t * PointShadowDirections[i + 1][3]>>)
    IN  /\ t >= InitialLights[3].shadowNear
        /\ t <= InitialLights[3].shadowFar
        /\ \A a \in 1..3 : Abs(across[a]) <= t

\* C6: with shadows on, the point shader fetches the map of every face whose
\* projected, divided and remapped coordinate lies in [0,1] on x, y and z, in face
\* order and without stopping at the first, and the visibility it ends with is the
\* answer of the last such face (1 when there is none).  A face the fragment has
\* depth 0 along divides by zero, and is left to the build.
C6_EveryFaceTestedLastWins ==
    (PointShaded /\ frag.light.hasShadow) =>
        /\ \A i \in 0..5 : FaceDepth(i) # 0 =>
              ((\E k \in DOMAIN frag.out.sampled : frag.out.sampled[k] = i) <=> InsideFace(i))
        /\ \A j \in DOMAIN frag.out.sampled : \A k \in DOMAIN frag.out.sampled :
              j < k => frag.out.sampled[j] < frag.out.sampled[k]
        /\ frag.out.shadow =
              IF frag.out.sampled = <<>> THEN FullyLit
              ELSE frag.maps[frag.light.shadowMaps[frag.out.sampled[Len(frag.out.sampled)]]]

\* a fragment on the edge two faces share: both are fetched, the later one stays
C6_Witness ==
    /\ PointShaded
    /\ frag.light.hasShadow
    /\ \A i \in 0..5 : FaceDepth(i) # 0
    /\ Cardinality({i \in 0..5 : InsideFace(i)}) >= 2
    /\ Len(frag.out.sampled) >= 2
    /\ frag.out.shadow = frag.maps[frag.light.shadowMaps[frag.out.sampled[Len(frag.out.sampled)]]]
    /\ frag.out.shadow # frag.maps[frag.light.shadowMaps[frag.out.sampled[1]]]

StrictlyDominant(v) ==
    \E a \in 1..3 : \A b \in (1..3) \ {a} : Abs(v[a]) > Abs(v[b])

\* direction v from the eye lies in the 90 degree frustum of the view-projection
InFrustum(vp, v) ==
    LET c == ViewCoord(vp.view, VAdd(vp.view.eye, v))
    IN  -c[3] > 0 /\ Abs(c[1]) <= -c[3] /\ Abs(c[2]) <= -c[3]

\* C9: any two of the six face directions are orthogonal or opposite, and a
\* direction from the light with whole components, one of them strictly larger in
\* size than the other two, lies in the frustum of exactly one face.
C9_FacesCoverEachDirectionOnce ==
    /\ \A i \in 1..6 : \A j \in (1..6) \ {i} :
          \/ Dot(PointShadowDirections[i], PointShadowDirections[j]) = 0
          \/ PointShadowDirections[i] = VSub(<<0, 0, 0>>, PointShadowDirections[j])
    /\ (frag.shader = "point" /\ StrictlyDominant(frag.offset)) =>
          Cardinality({i \in 0..5 : InFrustum(frag.light.shadowVPs[i], frag.offset)}) = 1

\* a fragment in such a direction, off the axes, looked up in its one face
C9_Witness ==
    /\ PointShaded
    /\ frag.light.hasShadow
    /\ StrictlyDominant(frag.offset)
    /\ Cardinality({a \in 1..3 : frag.offset[a] # 0}) = 3
    /\ Len(frag.out.sampled) = 1
    /\ InFrustum(frag.light.shadowVPs[frag.out.sampled[1]], frag.offset)

---------------------------------------------------------------------------
(* The colour pass of a light without shadows *)

\* what a light program may have kept from a frame that had shadows on: the
\* struct as that frame's pass set it
KeptUniforms(l) ==
    [hasShadow |-> 1,
     active_cascades |-> IF lights[l].type = "directional" THEN Len(lights[l].cascades) ELSE 0,
     cascades |-> [i \in 0..MAX_CASCADES - 1 |->
                      IF lights[l].type = "directional"
                      THEN lights[l].cascades[IF i < Len(lights[l].cascades) THEN i + 1
                                              ELSE Len(lights[l].cascades)]
                      ELSE 0],
     shadowVPs |-> [i \in 0..5 |->
                      IF i < Len(lights[l].shadowVPs) THEN lights[l].shadowVPs[i + 1]
                      ELSE PointShadowVPs(InitialLights[3])[i + 1]],
     shadowMaps |-> [i \in 0..5 |-> ShadowUnit(i)]]

\* surface points near the camera, far from it, and next to the point light
SurfacePoints == DirectionalPoints \cup {<<100, 250, 0>>, <<0, 150, 100>>}

\* map contents: every fetch occluded, or answers that differ from unit to unit
AnyMapContents == {[u \in 0..MaxTextureUnit |-> 0], MapAnswers}

\* the shadow uniforms light l's pass sets, by the light tag of the frame's calls
SetsUniform(l, name) ==
    \E k \in DOMAIN calls :
        /\ calls[k].l = l
        /\ calls[k].op \in UniformSetters
        /\ calls[k].args[1] = name

SetsHasShadowZero(l) ==
    \E k \in DOMAIN calls :
        /\ calls[k].l = l
        /\ calls[k].op = "setUniform1f"
        /\ calls[k].args[1] = "light.hasShadow"
        /\ calls[k].args[3] = 0

\* every fragment of light l's pass is fully lit and fetches no map
AlwaysLit(l) ==
    \A k \in CanvasDraws : draws[k].light = l =>
        \A p \in SurfacePoints : \A m \in AnyMapContents :
            LET u == draws[k].uniforms
                r == ShadowOf(lights[l].type, LightStruct(u, KeptUniforms(l)),
                              UniformOf(u, "cam_position", -1, <<0, 0, 0>>), p, m)
            IN  r.shadow = FullyLit /\ r.sampled = <<>>

NoShadowPass(l) ==
    /\ SetsHasShadowZero(l)
    /\ ~SetsUniform(l, "light.shadowMaps")
    /\ ~SetsUniform(l, "light.shadowVPs")
    /\ AlwaysLit(l)

\* C7 (amended): the colour pass of an enabled directional, point or spot light
\* whose hasShadow is false sets light.hasShadow to 0 and no shadow map or shadow
\* VP uniform, and its shader finds every surface point fully lit, whatever the
\* shadow maps hold and whatever the program kept from earlier frames.
C7_NoShadowLightFullyLit ==
    AfterFrame =>
        \A l \in EnabledLights \cap ShadowCapable : ~lights[l].hasShadow => NoShadowPass(l)

\* a frame with the shadows of all three lights turned off after a frame that
\* had them on
C7_Witness ==
    /\ AfterFrame
    /\ ShadowCapable \subseteq EnabledLights
    /\ \A l \in ShadowCapable : ~lights[l].hasShadow /\ lights[l].shadowVPs # <<>>
    /\ \A l \in ShadowCapable : NoShadowPass(l)

\* C7 as stated, for every light whose hasShadow is false: the ambient light is
\* one, and its pass sets no light.hasShadow at all.
C7_AsStated ==
    AfterFrame =>
        \A l \in EnabledLights : ~lights[l].hasShadow => NoShadowPass(l)

---------------------------------------------------------------------------
(* Properties of the shadow transforms a frame builds *)

\* the casting lights of one type
CastingOf(type) == {l \in CastingLights : lights[l].type = type}

\* the light's shadowVPs as the frame's shadow sub-passes upload them, by index
UploadedVPs(l) ==
    {<<calls[k].i, calls[k].args[3]>> :
        k \in {j \in DOMAIN calls : /\ calls[j].op = "setUniformMatrix4fv"
                                    /\ calls[j].l = l
                                    /\ calls[j].i >= 0
                                    /\ calls[j].args[1] = "VP"}}

\* C11: the view all cascades of a directional light share looks at the camera
\* position from the point shadowDistance / 2 away from it against the normalized
\* light direction; with the camera at the origin, the direction (0, -1, 0) and a
\* shadowDistance of 800 the eye is (0, 400, 0) and the target (0, 0, 0).
C11_DirectionalEyeHalfDistanceBack ==
    AfterFrame =>
        \A l \in CastingOf("directional") : \A i \in DOMAIN lights[l].shadowVPs :
            LET view == lights[l].shadowVPs[i].view
                half == lights[l].shadowDistance \div 2
                n == Normalize(lights[l].direction)
                back == VSub(view.eye, camPos)
            IN  /\ view.center = camPos
                /\ \A a \in 1..3 : back[a] = -Quot(n[a] * half, 1000)
                \* against the direction, half the distance long up to the rounding
                /\ Dot(back, lights[l].direction) < 0
                /\ \A a \in 1..3 : Sign(back[a]) = -Sign(lights[l].direction[a])
                /\ Dot(back, back) <= half * half
                /\ Dot(back, back) >= (half - Quot(half, 250)) * (half - Quot(half, 250))
                /\ <<i - 1, lights[l].shadowVPs[i]>> \in UploadedVPs(l)
                /\ (/\ camPos = <<0, 0, 0>>
                    /\ lights[l].direction = <<0, -1, 0>>
                    /\ lights[l].shadowDistance = 80000)
                        => view.eye = <<0, 40000, 0>> /\ view.center = <<0, 0, 0>>

\* the frame of the example: camera at the origin, light pointing straight down
C11_Witness ==
    /\ AfterFrame
    /\ camPos = <<0, 0, 0>>
    /\ \E l \in CastingOf("directional") :
          /\ lights[l].direction = <<0, -1, 0>>
          /\ lights[l].shadowDistance = 80000
          /\ lights[l].shadowVPs[1].view.eye = <<0, 40000, 0>>

\* C12: the six face transforms of a point light share one perspective
\* projection with a field of view of exactly PI/2 (90 degrees), aspect 1, near
\* shadowNear and far shadowFar; face i looks from the light's position along
\* PointShadowDirections[i] with the up vector PointShadowUps[i]; face 0 looks
\* along (-1, 0, 0) with up (0, -1, 0).
C12_PointFacesQuarterTurn ==
    AfterFrame =>
        \A l \in CastingOf("point") :
            /\ Len(lights[l].shadowVPs) = 6
            /\ \A i \in 1..6 :
                  LET vp == lights[l].shadowVPs[i]
                  IN  /\ vp.proj = [kind |-> "perspective", fovy |-> 90, aspect |-> 1,
                                    near |-> lights[l].shadowNear, far |-> lights[l].shadowFar]
                      /\ vp.view.eye = lights[l].position
                      /\ \A a \in 1..3 : vp.view.center[a] - lights[l].position[a]
                                            = 100 * PointShadowDirections[i][a]
                      /\ vp.view.up = PointShadowUps[i]
                      /\ <<i - 1, vp>> \in UploadedVPs(l)
            /\ VSub(lights[l].shadowVPs[1].view.center, lights[l].position) = <<-100, 0, 0>>
            /\ lights[l].shadowVPs[1].view.up = <<0, -1, 0>>

\* a frame with the point light moved and its near and far planes edited
C12_Witness ==
    /\ AfterFrame
    /\ \E l \in CastingOf("point") :
          /\ lights[l].position # InitialLights[l].position
          /\ lights[l].shadowFar # InitialLights[l].shadowFar
          /\ Len(lights[l].shadowVPs) = 6
          /\ lights[l].shadowVPs[1].proj.far = lights[l].shadowFar
          /\ lights[l].shadowVPs[4].view.center = VAdd(lights[l].position, <<100, 0, 0>>)

\* C13: the spot light's shadow transform is a perspective projection with a field
\* of view of twice outer_cone as it is when the frame is drawn (an edit of the
\* outer cone shows in the next frame's projection), aspect 1, near shadowNear and
\* far shadowFar, and a view from the light's position toward position + direction.
C13_SpotFovTwiceOuterCone ==
    AfterFrame =>
        \A l \in CastingOf("spot") :
            LET vp == lights[l].shadowVPs[1]
            IN  /\ Len(lights[l].shadowVPs) = 1
                /\ vp.proj = [kind |-> "perspective", fovy |-> 2 * lights[l].outer_cone,
                              aspect |-> 1, near |-> lights[l].shadowNear,
                              far |-> lights[l].shadowFar]
                /\ vp.view.eye = lights[l].position
                /\ \A a \in 1..3 : vp.view.center[a] - lights[l].position[a]
                                      = 100 * lights[l].direction[a]
                /\ UploadedVPs(l) = {<<0, vp>>}

\* between two frames only an edit changes a field, and the transform the frame
\* before built stays as it is until the next frame
C13_Witness ==
    /\ AfterFrame
    /\ \E l \in CastingOf("spot") :
          /\ lights[l].outer_cone = 30
          /\ lights[l].outer_cone # InitialLights[l].outer_cone
          /\ lights[l].shadowVPs[1].proj.fovy = 60

\* C14: cascade i of a directional light has an orthographic projection over
\* [-cascades[i], cascades[i]] on x and on y and over [0, shadowDistance] in depth,
\* and all the cascades of a frame share one view.
C14_CascadeOrthoExtents ==
    AfterFrame =>
        \A l \in CastingOf("directional") :
            /\ Len(lights[l].shadowVPs) = Len(lights[l].cascades)
            /\ \A i \in DOMAIN lights[l].cascades :
                  /\ lights[l].shadowVPs[i].proj
                        = [kind |-> "ortho",
                           left |-> -lights[l].cascades[i], right |-> lights[l].cascades[i],
                           bottom |-> -lights[l].cascades[i], top |-> lights[l].cascades[i],
                           near |-> 0, far |-> lights[l].shadowDistance]
                  /\ lights[l].shadowVPs[i].view = lights[l].shadowVPs[1].view
                  /\ <<i - 1, lights[l].shadowVPs[i]>> \in UploadedVPs(l)

\* a frame after the first cascade and the shadow distance were edited
C14_Witness ==
    /\ AfterFrame
    /\ \E l \in CastingOf("directional") :
          /\ lights[l].cascades[1] # InitialLights[l].cascades[1]
          /\ lights[l].shadowDistance # InitialLights[l].shadowDistance
          /\ Len(lights[l].shadowVPs) = 3
          /\ lights[l].shadowVPs[1].proj.right = lights[l].cascades[1]
          /\ lights[l].shadowVPs[3].proj.right = lights[l].cascades[3]
          /\ lights[l].shadowVPs[3].proj.right # lights[l].shadowVPs[1].proj.right
          /\ lights[l].shadowVPs[3].view = lights[l].shadowVPs[1].view

\* the lights whose shadow view takes perpendicular(direction) as its up-reference
AimedLights == CastingOf("spot") \cup CastingOf("directional")

\* a vector along the Y axis or along the Z axis
AlongYOrZ(d) == d[1] = 0 /\ (d[2] = 0 \/ d[3] = 0)

\* a vector along the X axis: its y and z components are both zero
AlongX(d) == d[2] = 0 /\ d[3] = 0

\* C19: the up-reference of the spot and directional shadow views is
\* cross(direction, (1, 0, 0)) for every direction, except when the y and z
\* components of direction are both zero (it lies along X), in which case it is
\* cross(direction, (0, 0, 1)); it is perpendicular to direction and not zero.
C19_UpReferenceCrossXUnlessAlongX ==
    AfterFrame =>
        \A l \in AimedLights : \A i \in DOMAIN lights[l].shadowVPs :
            LET d == lights[l].direction
                up == lights[l].shadowVPs[i].view.up
            IN  /\ up = IF AlongX(d) THEN Cross(d, <<0, 0, 1>>) ELSE Cross(d, <<1, 0, 0>>)
                /\ up = IF AlongX(d) THEN <<0, -d[1], 0>> ELSE <<0, d[3], -d[2]>>
                /\ Dot(up, d) = 0
                /\ up # <<0, 0, 0>>

\* frames with a light along X and a light off every axis
C19_Witness ==
    /\ AfterFrame
    /\ \E l \in CastingOf("directional") :
          /\ ~AlongX(lights[l].direction)
          /\ ~AlongYOrZ(lights[l].direction)
          /\ lights[l].shadowVPs[1].view.up = Cross(lights[l].direction, <<1, 0, 0>>)
    /\ \E l \in CastingOf("spot") :
          /\ AlongX(lights[l].direction)
          /\ lights[l].shadowVPs[1].view.up = Cross(lights[l].direction, <<0, 0, 1>>)

\* C19 as the claim states it: cross(direction, (0, 0, 1)) for every direction
\* except those along Y or Z, which take cross(direction, (1, 0, 0))
C19_AsStated ==
    AfterFrame =>
        \A l \in AimedLights : \A i \in DOMAIN lights[l].shadowVPs :
            lights[l].shadowVPs[i].view.up
                = IF AlongYOrZ(lights[l].direction)
                  THEN Cross(lights[l].direction, <<1, 0, 0>>)
                  ELSE Cross(lights[l].direction, <<0, 0, 1>>)

---------------------------------------------------------------------------
(* Properties of the shadow passes of a frame *)

\* the places in the frame's calls where op is called with first argument arg
CallsOf(op, arg) ==
    {k \in DOMAIN calls : calls[k].op = op /\ calls[k].args # <<>> /\ calls[k].args[1] = arg}

\* the mesh draw calls of the frame, by the place they have in calls
DrawCalls == {k \in DOMAIN calls : calls[k].op = "draw"}

\* the calls a shadow sub-pass begins with, and the draws of the sub-passes
SubPassCalls ==
    {k \in DOMAIN calls : calls[k].op = "framebufferTexture2D"}
        \cup {k \in DrawCalls : calls[k].i >= 0}

\* the calls a colour pass begins with, and the draws of the colour passes
ColourCalls == ShadingPasses \cup {k \in DrawCalls : calls[k].i < 0}

\* C15: every shadow-map draw of a frame runs with POLYGON_OFFSET_FILL enabled;
\* the frame disables it once, after the shadow passes of all lights and before
\* any colour pass; no colour-pass draw of any frame runs with it enabled, frames
\* in which no light casts a shadow included.
C15_OffsetOnlyInShadowPasses ==
    AfterFrame =>
        /\ \A k \in ShadowDraws : draws[k].polygonOffsetFill
        /\ \A k \in CanvasDraws : ~draws[k].polygonOffsetFill
        /\ Cardinality(CallsOf("disable", "POLYGON_OFFSET_FILL")) = 1
        /\ Cardinality(CallsOf("enable", "POLYGON_OFFSET_FILL")) = 1
        /\ \A d \in CallsOf("disable", "POLYGON_OFFSET_FILL") :
              /\ \A k \in SubPassCalls : k < d
              /\ \A k \in ColourCalls : d < k
              /\ \A e \in CallsOf("enable", "POLYGON_OFFSET_FILL") :
                    e < d /\ \A k \in SubPassCalls : e < k
        /\ ~gl.polygonOffsetFill

\* a frame with shadow draws and colour draws, and a frame before it
C15_Witness ==
    /\ lastOp = "redraw"
    /\ \E k \in ShadowDraws : draws[k].polygonOffsetFill
    /\ \E k \in CanvasDraws : ~draws[k].polygonOffsetFill
    /\ EnabledLights # CastingLights

\* such a frame with no light casting a shadow
C15_WitnessNoCaster ==
    /\ AfterFrame
    /\ CastingLights = {}
    /\ ShadowDraws = {}
    /\ CanvasDraws # {}
    /\ CallsOf("enable", "POLYGON_OFFSET_FILL") # {}
    /\ \A k \in CanvasDraws : ~draws[k].polygonOffsetFill

\* the sub-passes of the frame that logged "FrameBuffer is Incomplete"
LoggedIncomplete ==
    {<<calls[k].l, calls[k].i>> : k \in {j \in DOMAIN calls : calls[j].op = "console.error"}}

\* the frame's calls without what it wrote to the console
CallsButLog == SelectSeq(calls, LAMBDA c : c.op # "console.error")

\* the sub-passes the frame had to run: the maps of the casting lights
SubPassesDue ==
    UNION {{<<l, k - 1>> : k \in DOMAIN lights[l].shadowMaps} : l \in CastingLights}

\* the objects drawn in sub-pass sp, with the viewport and attachment they met
SubPassDraws(sp) == {k \in ShadowDraws : SubPassOf(draws[k]) = sp}

\* C16: a shadow sub-pass whose framebuffer status check reports an incomplete
\* target logs an error and nothing else: it still sets the viewport, clears the
\* depth and draws every object, and the other sub-passes, the other lights and
\* the colour passes of the frame are what they are with a complete target.
C16_IncompleteTargetOnlyLogs ==
    /\ [](AfterFrame =>
            /\ LoggedIncomplete \subseteq SubPassesDue
            /\ CallsButLog = FrameCalls(lights, camPos, {})
            /\ \A k \in DOMAIN calls :
                  calls[k].op = "console.error" =>
                      /\ calls[k - 1].op = "checkFramebufferStatus"
                      /\ calls[k + 1].op = "viewport"
                      /\ calls[k + 1].args
                            = <<0, 0, lights[calls[k].l].shadowMapResolution,
                                lights[calls[k].l].shadowMapResolution>>
                      /\ calls[k + 2].op = "clear"
                      /\ calls[k + 2].args = <<{"DEPTH_BUFFER_BIT"}>>
            /\ \A sp \in SubPassesDue :
                  /\ {draws[k].object : k \in SubPassDraws(sp)}
                        = {ObjectNames[n] : n \in DOMAIN ObjectNames}
                  /\ \A k \in SubPassDraws(sp) :
                        /\ draws[k].depthAttachment = lights[sp[1]].shadowMaps[sp[2] + 1]
                        /\ draws[k].viewport[3] = lights[sp[1]].shadowMapResolution
            /\ {draws[k].light : k \in CanvasDraws} = EnabledLights)
    \* the frame's draws and the context it leaves are those of the same frame
    \* drawn from the same state on complete targets
    /\ [][lastOp' \in {"draw", "redraw"} =>
            /\ lights' = LightsAfterShadowLoop(lights, camPos')
            /\ Once(FrameCalls(lights', camPos', {}), LAMBDA complete :
               Once(Run(gl, complete), LAMBDA r :
                   draws' = r.draws /\ gl' = Unbound(r.gl)))]_vars

\* a frame with one sub-pass reported incomplete among complete ones
C16_Witness ==
    /\ AfterFrame
    /\ Cardinality(LoggedIncomplete) = 1
    /\ Cardinality(SubPassesDue) > 1
    /\ \A sp \in LoggedIncomplete : Cardinality(SubPassDraws(sp)) = Len(ObjectNames)
    /\ CanvasDraws # {}

---------------------------------------------------------------------------
(* Properties of end() *)

\* the GPU objects start() creates: StartObjects and the lights' shadow maps
CreatedByStart ==
    StartObjects \cup {ShadowMapTex(l, k - 1) : l \in ShadowCapable, k \in 1..6}

\* C17 as the claim states it: after end() no shader program, mesh, texture,
\* sampler, shadow-map depth texture or shadow framebuffer created by start()
\* remains unreleased.
C17_AllReleasedAtEnd ==
    phase = "ended" => gpu \cap CreatedByStart = {}

\* C17, what end() does: it releases the shader programs and the meshes, and
\* every texture, sampler, shadow map and the framebuffer alive before it is
\* alive after it.
C17_OnlyProgramsAndMeshesReleased ==
    /\ [](phase = "ended" =>
            /\ \A o \in gpu : o.kind \notin {"program", "mesh"}
            /\ Obj("framebuffer", "frameBuffer", 0, 0) \in gpu
            /\ {o \in StartObjects : o.kind \in {"texture", "sampler"}} \subseteq gpu
            /\ \A l \in ShadowCapable :
                  \A k \in DOMAIN lights[l].shadowMaps : lights[l].shadowMaps[k] \in gpu)
    /\ [][lastOp' = "end" =>
            gpu' = {o \in gpu : o.kind \notin {"program", "mesh"}}]_vars

\* the scene ended after frames were drawn: 11 textures, 2 samplers, 10 shadow
\* maps and the framebuffer are still alive
C17_Witness ==
    /\ phase = "ended"
    /\ \A l \in ShadowCapable : lights[l].shadowVPs # <<>>
    /\ Cardinality(gpu) = 24
    /\ Cardinality(ShadowMapsOf(gpu)) = 10

---------------------------------------------------------------------------
(* Properties of what a colour pass reads of the shadow passes *)

\* the places where the colour pass of light l uploads light.hasShadow = 1
UploadsHasShadow(l) ==
    {k \in DOMAIN calls : /\ calls[k].op = "setUniform1f"
                          /\ calls[k].l = l
                          /\ calls[k].args = <<"light.hasShadow", -1, 1>>}

\* the calls of light l's colour pass that hand a shadow map or a shadowVP over
HandsOver(l, op, name) ==
    {k \in DOMAIN calls : /\ calls[k].op = op
                          /\ calls[k].l = l
                          /\ calls[k].args[1] = name}

\* the calls of sub-pass <<l, i>> with operation op
InSubPass(l, i, op) ==
    {k \in DOMAIN calls : calls[k].op = op /\ calls[k].l = l /\ calls[k].i = i /\ i >= 0}

\* map index i of light l was attached, then cleared, then drawn into with the
\* matrix vp, all of it before place h of the frame
RenderedBefore(l, i, vp, h) ==
    \E a \in InSubPass(l, i, "framebufferTexture2D") :
    \E c \in {k \in InSubPass(l, i, "clear") : "DEPTH_BUFFER_BIT" \in calls[k].args[1]} :
    \E u \in {k \in InSubPass(l, i, "setUniformMatrix4fv") : calls[k].args[1] = "VP"} :
        /\ calls[a].args[1] = lights[l].shadowMaps[i + 1]
        /\ calls[u].args[3] = vp
        /\ a < c /\ c < u
        /\ {calls[k].args[1] : k \in {j \in InSubPass(l, i, "draw") : u < j /\ j < h}}
              = {ObjectNames[n] : n \in DOMAIN ObjectNames}
        /\ \A k \in InSubPass(l, i, "draw") : c < k

\* the map index a shader slot reads: its own, or the last one for a spare slot
SlotSource(l, i) ==
    IF i < Len(lights[l].shadowMaps) THEN i ELSE Len(lights[l].shadowMaps) - 1

\* C18: with the light fields edited between frames only, every colour pass that
\* uploads hasShadow = 1 for a light hands the shader shadow maps that were
\* cleared and rendered, and shadowVPs that were computed, for that light
\* earlier in the same frame from the field values and camera position the pass
\* itself sees; it hands over no map of a frame before and no shadowVPs entry
\* that was never written, whatever enabled and hasShadow were toggled to.
C18_ColourPassReadsThisFramesShadows ==
    AfterFrame =>
        \A l \in LightIds : \A h \in UploadsHasShadow(l) :
            /\ l \in CastingLights
            /\ Len(lights[l].shadowVPs) = Len(lights[l].shadowMaps)
            /\ lights[l].shadowVPs = BuildShadowVPs(lights[l], camPos)
            /\ \A k \in HandsOver(l, "setUniformMatrix4fv", "light.shadowVPs") :
                  LET i == SlotSource(l, calls[k].args[2])
                  IN  /\ h < k
                      /\ calls[k].args[3] = BuildShadowVPs(lights[l], camPos)[i + 1]
                      /\ RenderedBefore(l, i, calls[k].args[3], h)
            /\ \A k \in HandsOver(l, "setUniform1i", "light.shadowMaps") :
                  LET i == SlotSource(l, calls[k].args[2])
                  IN  /\ h < k
                      /\ calls[k].args[3] = ShadowUnit(i)
                      /\ \E b \in {j \in DOMAIN calls : calls[j].op = "bindTexture"} :
                            /\ h < b
                            /\ calls[b].l = l
                            /\ calls[b].i = i
                            /\ calls[b - 1].op = "activeTexture"
                            /\ calls[b - 1].args[1] = ShadowUnit(i)
                            /\ calls[b].args[1] = lights[l].shadowMaps[i + 1]
            /\ {calls[k].args[2] :
                    k \in HandsOver(l, "setUniformMatrix4fv", "light.shadowVPs")}
                  = 0..((IF lights[l].type = "directional"
                         THEN MAX_CASCADES ELSE Len(lights[l].shadowMaps)) - 1)

\* a frame after the camera moved and shadows were toggled: a light casts again
\* whose shadowVPs an earlier frame wrote from another camera position, next to a
\* light with shadows turned off since it last cast
C18_Witness ==
    /\ lastOp = "draw"
    /\ camPos = <<0, 0, 0>>
    /\ UploadsHasShadow(2) # {}
    /\ \E l \in EnabledLights \ CastingLights : lights[l].type # "ambient" /\ lights[l].shadowVPs # <<>>
    /\ \E l \in CastingLights \ {2} : UploadsHasShadow(l) # {}

---------------------------------------------------------------------------
(* Properties of the steps of a shadow sub-pass *)

\* the one call of sub-pass <<l, i>> with operation op
TheCall(l, i, op) == CHOOSE k \in InSubPass(l, i, op) : TRUE

\* the upload of VP in sub-pass <<l, i>>
VPUploads(l, i) ==
    {k \in InSubPass(l, i, "setUniformMatrix4fv") : calls[k].args[1] = "VP"}

\* C20: for every shadow map of every enabled light with hasShadow, once in a
\* frame and in this order, the map is attached as the depth attachment of the
\* shared framebuffer, the viewport is set to (0, 0, shadowMapResolution,
\* shadowMapResolution) of the light, the depth buffer and nothing else is
\* cleared, the map's VP is uploaded and the objects are drawn; no object is
\* drawn into a map before the map was cleared in the same frame.
C20_SubPassStepsInOrder ==
    AfterFrame =>
        /\ {<<calls[k].l, calls[k].i>> :
                k \in {j \in DOMAIN calls : calls[j].op = "framebufferTexture2D"}}
              = SubPassesDue
        /\ \A sp \in SubPassesDue :
              LET l == sp[1]
                  i == sp[2]
              IN  /\ \A op \in {"framebufferTexture2D", "viewport", "clear"} :
                        Cardinality(InSubPass(l, i, op)) = 1
                  /\ Cardinality(VPUploads(l, i)) = 1
                  /\ Cardinality(InSubPass(l, i, "draw")) = Len(ObjectNames)
                  /\ {calls[k].args[1] : k \in InSubPass(l, i, "draw")}
                        = {ObjectNames[n] : n \in DOMAIN ObjectNames}
                  /\ calls[TheCall(l, i, "framebufferTexture2D")].args
                        = <<lights[l].shadowMaps[i + 1]>>
                  /\ calls[TheCall(l, i, "viewport")].args
                        = <<0, 0, lights[l].shadowMapResolution, lights[l].shadowMapResolution>>
                  /\ calls[TheCall(l, i, "clear")].args = <<{"DEPTH_BUFFER_BIT"}>>
                  /\ \A u \in VPUploads(l, i) :
                        /\ calls[u].args[3] = lights[l].shadowVPs[i + 1]
                        /\ TheCall(l, i, "framebufferTexture2D") < TheCall(l, i, "viewport")
                        /\ TheCall(l, i, "viewport") < TheCall(l, i, "clear")
                        /\ TheCall(l, i, "clear") < u
                        /\ \A k \in InSubPass(l, i, "draw") : u < k
                  \* the sub-passes do not run into one another
                  /\ \A d \in InSubPass(l, i, "draw") :
                        \A k \in TheCall(l, i, "framebufferTexture2D")..d :
                            calls[k].l = l /\ calls[k].i = i
                  /\ \A k \in SubPassDraws(sp) :
                        /\ draws[k].framebuffer = Obj("framebuffer", "frameBuffer", 0, 0)
                        /\ draws[k].depthAttachment = lights[l].shadowMaps[i + 1]
                        /\ draws[k].viewport
                              = <<0, 0, lights[l].shadowMapResolution,
                                  lights[l].shadowMapResolution>>
        /\ \A k \in DOMAIN calls :
              (calls[k].op = "clear" /\ calls[k].i >= 0) =>
                  calls[k].args = <<{"DEPTH_BUFFER_BIT"}>>

\* a second frame in a row with the maps of two kinds of light rendered and a
\* third light's maps left alone
C20_Witness ==
    /\ lastOp = "redraw"
    /\ Cardinality({sp[1] : sp \in SubPassesDue}) = 2
    /\ \E l \in ShadowCapable \ CastingLights : lights[l].shadowVPs # <<>>
    /\ \A sp \in SubPassesDue : Cardinality(SubPassDraws(sp)) = Len(ObjectNames)
    /\ Cardinality(SubPassesDue) > 6

---------------------------------------------------------------------------
(* Properties of the objects drawn in a frame *)

Objects == {ObjectNames[n] : n \in DOMAIN ObjectNames}

\* the draws of object o in shadow sub-pass sp
SubPassDrawsOf(sp, o) == {k \in SubPassDraws(sp) : draws[k].object = o}

\* the draws of object o in the colour pass of light l
ColourDrawsOf(l, o) == {k \in CanvasDraws : draws[k].light = l /\ draws[k].object = o}

\* C21: every object of the scene is drawn exactly once in every shadow sub-pass
\* and exactly once in every colour pass: a frame makes (shadow maps of the
\* enabled lights with hasShadow + enabled lights) times (objects) mesh draws.
C21_EveryObjectOncePerPass ==
    AfterFrame =>
        /\ \A sp \in SubPassesDue : \A o \in Objects : Cardinality(SubPassDrawsOf(sp, o)) = 1
        /\ \A l \in EnabledLights : \A o \in Objects : Cardinality(ColourDrawsOf(l, o)) = 1
        /\ Len(draws) = (Cardinality(SubPassesDue) + Cardinality(EnabledLights))
                            * Len(ObjectNames)
        /\ Cardinality(DrawCalls) = Len(draws)
        /\ Cardinality(Objects) = Len(ObjectNames)

\* a frame with some lights off and some shadows off: 7 shadow maps, 3 lights
C21_Witness ==
    /\ AfterFrame
    /\ Cardinality(SubPassesDue) = 7
    /\ Cardinality(EnabledLights) = 3
    /\ Len(draws) = 30

---------------------------------------------------------------------------
(* Properties of the depth bias of the shadow passes *)

\* the lights that hold texture t among their shadow maps
OwnersOf(t) ==
    {l \in ShadowCapable : \E k \in DOMAIN lights[l].shadowMaps : lights[l].shadowMaps[k] = t}

\* C22: in every shadow sub-pass the polygon offset the draws run under is
\* (factor = shadowSlopeBias, units = shadowBias) of the light that owns the map
\* drawn into, as the fields are when the frame is drawn; no light's map is
\* rasterized with the bias of another light.
C22_OffsetIsOwnersBias ==
    AfterFrame =>
        \A k \in ShadowDraws :
            /\ OwnersOf(draws[k].depthAttachment) = {draws[k].light}
            /\ draws[k].polygonOffsetFill
            /\ draws[k].polygonOffset
                  = <<lights[draws[k].light].shadowSlopeBias, lights[draws[k].light].shadowBias>>

\* a frame with three casting lights of three different biases
C22_Witness ==
    /\ AfterFrame
    /\ CastingLights = ShadowCapable
    /\ \A l \in ShadowCapable : \A m \in ShadowCapable :
          l # m => <<lights[l].shadowSlopeBias, lights[l].shadowBias>>
                      # <<lights[m].shadowSlopeBias, lights[m].shadowBias>>
    /\ \A l \in ShadowCapable :
          \E k \in ShadowDraws :
              /\ draws[k].light = l
              /\ draws[k].polygonOffset = <<lights[l].shadowSlopeBias, lights[l].shadowBias>>

---------------------------------------------------------------------------
(* Properties of the cascade slots a directional colour pass fills *)

\* the <<index, value>> pairs light l's colour pass uploads for a uniform array
UniformUploads(l, name) ==
    {<<calls[k].args[2], calls[k].args[3]>> :
        k \in {j \in DOMAIN calls : /\ calls[j].op \in UniformSetters
                                    /\ calls[j].l = l
                                    /\ calls[j].args[1] = name}}

\* the <<unit, texture>> pairs light l's colour pass binds for its shadow maps
ShadowUnitsBound(l) ==
    {<<calls[b - 1].args[1], calls[b].args[1]>> :
        b \in {j \in DOMAIN calls : /\ calls[j].op = "bindTexture"
                                    /\ calls[j].l = l
                                    /\ calls[j].i >= 0
                                    /\ calls[j - 1].op = "activeTexture"}}

\* slot i of the shader reads cascade i, or the last cascade when there is no i
SlotCascade(k, i) == IF i < k THEN i ELSE k - 1

\* C23: the colour pass of a directional light with hasShadow and k cascades,
\* 1 <= k <= MAX_CASCADES, fills all MAX_CASCADES slots of the shader: slot i < k
\* gets shadowVPs[i], texture unit 5 + i and cascades[i]; every slot from k on
\* gets the last cascade's shadowVPs[k-1], unit 5 + (k-1) and cascades[k-1];
\* active_cascades is uploaded as k.
C23_SpareSlotsTakeLastCascade ==
    AfterFrame =>
        \A l \in CastingOf("directional") :
            LET k == Len(lights[l].cascades)
            IN  (1 <= k /\ k <= MAX_CASCADES) =>
                    /\ UniformUploads(l, "light.shadowVPs")
                          = {<<i, lights[l].shadowVPs[SlotCascade(k, i) + 1]>> :
                                i \in 0..MAX_CASCADES - 1}
                    /\ UniformUploads(l, "light.shadowMaps")
                          = {<<i, 5 + SlotCascade(k, i)>> : i \in 0..MAX_CASCADES - 1}
                    /\ UniformUploads(l, "light.cascades")
                          = {<<i, lights[l].cascades[SlotCascade(k, i) + 1]>> :
                                i \in 0..MAX_CASCADES - 1}
                    /\ UniformUploads(l, "light.active_cascades") = {<<-1, k>>}
                    /\ ShadowUnitsBound(l)
                          = {<<5 + i, lights[l].shadowMaps[i + 1]>> : i \in 0..k - 1}
                    /\ Len(lights[l].shadowVPs) = k

\* frames of a light with a single cascade: three spare slots take cascade 0
C23_Witness ==
    /\ AfterFrame
    /\ \E l \in CastingOf("directional") :
          /\ Len(lights[l].cascades) = 1
          /\ <<3, lights[l].shadowVPs[1]>> \in UniformUploads(l, "light.shadowVPs")
          /\ <<3, 5>> \in UniformUploads(l, "light.shadowMaps")
          /\ <<3, lights[l].cascades[1]>> \in UniformUploads(l, "light.cascades")

\* a frame of a light with as many cascades as the shader has slots
C23_WitnessFull ==
    /\ AfterFrame
    /\ \E l \in CastingOf("directional") :
          /\ Len(lights[l].cascades) = MAX_CASCADES
          /\ <<3, 8>> \in UniformUploads(l, "light.shadowMaps")


---------------------------------------------------------------------------
(* The slots the directional shader's cascade loop indexes *)

\* min(light.active_cascades, MAX_CASCADES), and none below zero
SlotsAllowed(light) ==
    IF light.active_cascades <= 0 THEN 0
    ELSE IF light.active_cascades < MAX_CASCADES THEN light.active_cascades
    ELSE MAX_CASCADES

\* C24: whatever light.active_cascades holds (above 4, zero, negative), the
\* directional shader's cascade loop examines at most min(active_cascades, 4)
\* slots, in the order 0, 1, 2, ..., and indexes cascades, shadowVPs and
\* shadowMaps only at indices within 0..3
C24_CascadeLoopStaysInArrays ==
    (frag.shader = "directional" /\ frag.out.shaded) =>
        /\ Len(frag.out.examined) <= SlotsAllowed(frag.light)
        /\ \A k \in 1..Len(frag.out.examined) :
              /\ frag.out.examined[k] = k - 1
              /\ frag.out.examined[k] \in 0..(MAX_CASCADES - 1)
        /\ \A k \in 1..Len(frag.out.sampled) :
              /\ frag.out.sampled[k] \in 0..(MAX_CASCADES - 1)
              /\ \E j \in 1..Len(frag.out.examined) :
                    frag.out.examined[j] = frag.out.sampled[k]

\* a light announcing more cascades than the arrays hold, no cascade reaching
\* the fragment: the loop went through the four slots and stopped
C24_Witness ==
    /\ frag.shader = "directional" /\ frag.out.shaded
    /\ frag.light.hasShadow
    /\ frag.light.active_cascades > MAX_CASCADES
    /\ frag.out.examined = <<0, 1, 2, 3>>
    /\ frag.out.sampled = <<>>

\* a light announcing a negative number of cascades: the loop examined nothing
C24_WitnessNegative ==
    /\ frag.shader = "directional" /\ frag.out.shaded
    /\ frag.light.hasShadow
    /\ frag.light.active_cascades < 0
    /\ frag.out.examined = <<>>


---------------------------------------------------------------------------
(* The up-reference of the aimed lights over a cube of integer directions *)

\* the <<direction, up-reference>> pairs of the views the frame uploaded for the
\* spot and directional lights' shadow sub-passes
AimedUps ==
    UNION {{<<lights[l].direction, p[2].view.up>> : p \in UploadedVPs(l)} : l \in AimedLights}

\* C25: for every non-zero integer direction d the up-reference handed to lookAt
\* for a spot or directional light, perpendicular(d), is not the zero vector and
\* its dot product with d is 0; for the zero direction it is the zero vector
C25_PerpendicularNeverDegenerate ==
    AfterFrame =>
        \A p \in AimedUps :
            /\ p[1] # <<0, 0, 0>> => (p[2] # <<0, 0, 0>> /\ Dot(p[2], p[1]) = 0)
            /\ p[1] = <<0, 0, 0>> => p[2] = <<0, 0, 0>>

\* a frame with a light aimed off every axis and plane, components of different
\* sizes
C25_Witness ==
    /\ AfterFrame
    /\ \E p \in AimedUps :
          /\ p[1] = <<2, -1, 1>>
          /\ p[2] = <<0, 1, 1>>
    /\ \E p \in AimedUps : p[1] = <<0, -1, -1>>

\* a frame with a light whose direction is the zero vector
C25_WitnessZero ==
    /\ AfterFrame
    /\ \E p \in AimedUps : p[1] = <<0, 0, 0>> /\ p[2] = <<0, 0, 0>>
    /\ \E p \in AimedUps : p[1] # <<0, 0, 0>> /\ p[2] # <<0, 0, 0>>

\* a frame with a light along X, two units long
C25_WitnessAlongX ==
    /\ AfterFrame
    /\ \E p \in AimedUps : p[1] = <<-2, 0, 0>> /\ p[2] = <<0, 2, 0>>


---------------------------------------------------------------------------
(* The up vectors of the point light's faces *)

\* a vector with one component 1 or -1 and the other two 0
UnitAxis(v) == Len(v) = 3 /\ Dot(v, v) = 1

\* C26: PointShadowDirections and PointShadowUps both have 6 entries, and for
\* every face i in 0..5 PointShadowUps[i] is a unit axis vector whose dot product
\* with PointShadowDirections[i] is 0: every face view of a point light is built
\* with an up vector that is not parallel to the direction it looks along
C26_FaceUpsOrthogonal ==
    AfterFrame =>
        /\ Len(PointShadowDirections) = 6
        /\ Len(PointShadowUps) = 6
        /\ \A l \in CastingOf("point") :
              /\ {p[1] : p \in UploadedVPs(l)} = 0..5
              /\ \A p \in UploadedVPs(l) :
                    LET look == VSub(p[2].view.center, p[2].view.eye)
                        up == p[2].view.up
                    IN  /\ up = PointShadowUps[p[1] + 1]
                        /\ UnitAxis(up)
                        /\ UnitAxis(PointShadowDirections[p[1] + 1])
                        /\ Dot(up, PointShadowDirections[p[1] + 1]) = 0
                        /\ look # <<0, 0, 0>>
                        /\ Dot(up, look) = 0
                        /\ Cross(up, look) # <<0, 0, 0>>

\* a frame in which the moved point light's faces along -Y and +Y were built
\* with the up vector (0, 0, -1)
C26_Witness ==
    /\ AfterFrame
    /\ \E l \in CastingOf("point") :
          /\ lights[l].position # InitialLights[l].position
          /\ \E p \in UploadedVPs(l) :
                /\ p[1] = 1
                /\ VSub(p[2].view.center, p[2].view.eye) = <<0, -100, 0>>
                /\ p[2].view.up = <<0, 0, -1>>
          /\ \E p \in UploadedVPs(l) :
                /\ p[1] = 4
                /\ VSub(p[2].view.center, p[2].view.eye) = <<0, 100, 0>>
                /\ p[2].view.up = <<0, 0, -1>>


---------------------------------------------------------------------------
(* The render target of every draw *)

\* the framebuffer bound when call k is issued: the argument of the last
\* bindFramebuffer before it in the frame
BoundAt(k) ==
    LET binds == {j \in 1..(k - 1) : calls[j].op = "bindFramebuffer"}
    IN  IF binds = {} THEN [kind |-> "unknown"]
        ELSE calls[CHOOSE j \in binds : \A b \in binds : b <= j].args[1]

\* the clears of the frame issued with the canvas bound
CanvasClears == {k \in DOMAIN calls : calls[k].op = "clear" /\ BoundAt(k) = NoObj}

\* C27: in every frame each draw into a shadow map is issued with the scene's
\* off-screen framebuffer bound; each colour-pass draw is issued with the default
\* framebuffer bound and the viewport (0, 0, drawingBufferWidth,
\* drawingBufferHeight), never a shadow map's; and the canvas is cleared exactly
\* once in the frame, colour and depth together, before the first colour-pass draw
C27_DrawsOnTheirTargets ==
    AfterFrame =>
        /\ \A k \in DOMAIN draws :
              IF draws[k].sub >= 0
              THEN /\ draws[k].framebuffer = Obj("framebuffer", "frameBuffer", 0, 0)
                   /\ draws[k].depthAttachment = lights[draws[k].light].shadowMaps[draws[k].sub + 1]
              ELSE /\ draws[k].framebuffer = NoObj
                   /\ draws[k].viewport = <<0, 0, DrawingBufferWidth, DrawingBufferHeight>>
        /\ Cardinality(CanvasClears) = 1
        /\ \A c \in CanvasClears :
              /\ calls[c].args = <<{"COLOR_BUFFER_BIT", "DEPTH_BUFFER_BIT"}>>
              /\ \A k \in DrawCalls :
                    IF calls[k].i >= 0
                    THEN k < c /\ BoundAt(k) = Obj("framebuffer", "frameBuffer", 0, 0)
                    ELSE c < k /\ BoundAt(k) = NoObj
        /\ \A k \in CallsOf("clear", {"DEPTH_BUFFER_BIT"}) :
              BoundAt(k) = Obj("framebuffer", "frameBuffer", 0, 0)

\* a frame that drew into shadow maps of three resolutions and then shaded with
\* two or more lights on the canvas
C27_Witness ==
    /\ AfterFrame
    /\ Cardinality({draws[k].viewport : k \in ShadowDraws}) = 3
    /\ Cardinality({draws[k].light : k \in CanvasDraws}) >= 2
    /\ \A k \in CanvasDraws :
          draws[k].viewport = <<0, 0, DrawingBufferWidth, DrawingBufferHeight>>
    /\ Cardinality(CanvasClears) = 1


---------------------------------------------------------------------------
(* Fragments no face of the point light reaches *)

\* the faces the fragment has depth 0 along: the shader divides by zero there
FacesDividedByZero == {i \in 0..5 : FaceDepth(i) = 0}

\* no face whose range test is defined has the fragment in range
OutOfEveryFace == \A i \in (0..5) \ FacesDividedByZero : ~InsideFace(i)

\* the square of the fragment's distance from the light (1/100 squared)
SquaredFromLight == Dot(FromLight, FromLight)

\* C29: with hasShadow set, a fragment of the point shader that is in range of
\* none of the six faces, one farther than shadowFar from the light for example,
\* fetches no shadow map and keeps the visibility 1; the only faces such a
\* fragment can be looked up in are faces whose test divides by zero
C29_OutOfRangeStaysLit ==
    (PointShaded /\ frag.light.hasShadow /\ OutOfEveryFace) =>
        /\ \A k \in DOMAIN frag.out.sampled : frag.out.sampled[k] \in FacesDividedByZero
        /\ frag.out.sampled = <<>> => frag.out.shadow = FullyLit
        /\ FacesDividedByZero = {} =>
              (frag.out.sampled = <<>> /\ frag.out.shadow = FullyLit)

\* a fragment off every axis and plane, farther from the light than shadowFar
C29_Witness ==
    /\ PointShaded
    /\ frag.light.hasShadow
    /\ FacesDividedByZero = {}
    /\ OutOfEveryFace
    /\ SquaredFromLight > InitialLights[3].shadowFar * InitialLights[3].shadowFar
    /\ \E i \in 0..5 : FaceDepth(i) > InitialLights[3].shadowFar
    /\ frag.out.sampled = <<>>
    /\ frag.out.shadow = FullyLit

\* a fragment beyond shadowFar on an axis, where four faces divide by zero and
\* the build found none of them in range
C29_WitnessOnAxis ==
    /\ PointShaded
    /\ frag.light.hasShadow
    /\ Cardinality(FacesDividedByZero) = 4
    /\ OutOfEveryFace
    /\ SquaredFromLight > InitialLights[3].shadowFar * InitialLights[3].shadowFar
    /\ frag.out.sampled = <<>>
    /\ frag.out.shadow = FullyLit


---------------------------------------------------------------------------
(* The pixel after the colour passes *)

\* a frame has been drawn over the followed pixel
PixelFrame == AfterFrame /\ pixel # NoPixel

\* the objects whose fragment at the pixel no other object's fragment is nearer than
NearestObjects ==
    {o \in DOMAIN pixel.depths :
        /\ pixel.depths[o] # NoDepth
        /\ \A q \in DOMAIN pixel.depths :
              pixel.depths[q] # NoDepth => pixel.depths[o] <= pixel.depths[q]}

RECURSIVE LightSum(_, _)
\* the shaded colours of object o under the lights in S, added up
LightSum(S, o) ==
    IF S = {} THEN 0
    ELSE LET l == CHOOSE x \in S : TRUE IN Shade(l, o) + LightSum(S \ {l}, o)

RECURSIVE ObjectSum(_, _)
\* what the lights in S add over all the objects in O
ObjectSum(S, O) ==
    IF O = {} THEN 0
    ELSE LET o == CHOOSE x \in O : TRUE IN LightSum(S, o) + ObjectSum(S, O \ {o})

\* of the nearest objects the one drawn last
LastNearest ==
    ObjectNames[CHOOSE k \in DOMAIN ObjectNames :
                   /\ ObjectNames[k] \in NearestObjects
                   /\ \A j \in DOMAIN ObjectNames : ObjectNames[j] \in NearestObjects => j <= k]

\* C28: after a frame with at least one light enabled, the colour of a pixel whose
\* nearest fragment is the only one at its depth is the sum, over the enabled
\* lights, of that light's shaded colour at the nearest fragment, each light
\* counted once, which is what the single-pass shader computes; the depth buffer
\* holds that fragment's depth, and a pixel no fragment covers, or a frame with no
\* light enabled, shows the clear colour.  In general the first enabled light is
\* counted once, at the nearest fragment drawn last, and every later light once
\* for each fragment at the nearest depth.
C28_LightsSummedAtNearest ==
    PixelFrame =>
        /\ (EnabledLights # {} /\ Cardinality(NearestObjects) = 1) =>
              /\ pixel.colour = Clamp(LightSum(EnabledLights, LastNearest))
              /\ pixel.colour = SinglePassColour(pixel, lights, gl)
              /\ pixel.depth = pixel.depths[LastNearest]
        /\ (EnabledLights = {} \/ NearestObjects = {}) =>
              /\ pixel.colour = gl.clearColor[1]
              /\ pixel.depth = FarDepth
        /\ (EnabledLights # {} /\ NearestObjects # {}) =>
              pixel.colour =
                  Clamp(Shade(FirstEnabled, LastNearest)
                          + ObjectSum(EnabledLights \ {FirstEnabled}, NearestObjects))

\* C28 as stated: with a light enabled, every covered pixel holds the single-pass
\* colour, fragments of equal depth included
C28_AsStated ==
    (PixelFrame /\ EnabledLights # {} /\ NearestObjects # {}) =>
        pixel.colour = SinglePassColour(pixel, lights, gl)

\* three objects at three depths, the nearest drawn first, three or more lights
C28_Witness ==
    /\ PixelFrame
    /\ Cardinality(EnabledLights) >= 3
    /\ Cardinality({pixel.depths[o] : o \in DOMAIN pixel.depths} \ {NoDepth}) = 3
    /\ LastNearest = ObjectNames[1]
    /\ pixel.colour = LightSum(EnabledLights, ObjectNames[1])
    /\ pixel.colour < ColourMax

\* two fragments at the nearest depth under two lights: the second light is in
\* the pixel twice
C28_WitnessEqualDepth ==
    /\ PixelFrame
    /\ Cardinality(EnabledLights) = 2
    /\ Cardinality(NearestObjects) = 2
    /\ pixel.colour < ColourMax
    /\ pixel.colour > SinglePassColour(pixel, lights, gl)

\* a pixel whose lights add up to more than the canvas holds
C28_WitnessSaturated ==
    /\ PixelFrame
    /\ Cardinality(NearestObjects) = 1
    /\ LightSum(EnabledLights, LastNearest) > ColourMax
    /\ pixel.colour = ColourMax


---------------------------------------------------------------------------
(* Material.use() *)

\* use() was the last call on the material
MaterialUsed == material # NoMaterial /\ material.lastOp = "use"

\* the calls the last use() made on the shader after shader.use()
SetterCalls == Tail(material.issued)

\* the place of name in the order of first setting
FirstSet(name) == CHOOSE k \in DOMAIN material.inserted : material.inserted[k] = name

\* the texture calls of the last use(), by their place in SetterCalls
TextureCalls == {k \in DOMAIN SetterCalls : SetterCalls[k].op = "setTexture"}

C30_WitnessArrayIndex ==
    /\ MaterialUsed
    /\ material.inserted = <<"material.albedo", "10", "9">>
    /\ SetterCalls[1].name = "9"
    /\ SetterCalls[2].name = "10"
    /\ SetterCalls[3].name = "material.albedo"
    /\ \A k \in 1..3 : SetterCalls[k].op = "setTexture" /\ SetterCalls[k].unit = k - 1

===========================================================================
